---- MODULE Spec2Model ----
(***************************************************************************)
(* Model of the mobile-reviews service: the App Store adapter (paginated   *)
(* RSS feed), the Google Play adapter (library / internal endpoint / web   *)
(* scrape fallback chain) and the HTTP handlers that aggregate them.       *)
(***************************************************************************)
EXTENDS Integers, Sequences, FiniteSets, TLC

VARIABLES
  pc,        \* "idle" | "running" | "responded": the life of one HTTP request
  endpoint,  \* "none" | "reviews" | "android" | "ios" | "app-info" | "stats"
  query,     \* the raw limit query parameter of the request
  limit,     \* the limit the handler computed from it
  gp,        \* the pending call of GooglePlayService.fetchReviews
  as,        \* the pending call of AppStoreService.fetchReviews
  response,  \* the HTTP response of the request
  settled,   \* the platforms whose fetch has settled, in the order they settled
  gpInfo,    \* the pending call of GooglePlayService.getAppInfo
  asInfo,    \* the pending call of AppStoreService.getAppInfo
  asStats,   \* the pending call of AppStoreService.getReviewsStats
  pageCall,  \* the last direct call of AppStoreService.fetchReviewsPage
  feedCall,  \* two direct calls of AppStoreService.fetchReviews against one feed
  webCall,   \* the last direct call of GooglePlayService.scrapeReviewsFromWeb
  statsCall, \* the last direct call of AppStoreService.getReviewsStats
  pair       \* two review requests in flight at once

vars == <<pc, endpoint, query, limit, gp, as, response, settled, gpInfo, asInfo, asStats, pageCall, feedCall, webCall,
          statsCall, pair>>

-----------------------------------------------------------------------------
(* Bounds of the model *)

MaxSmallLimit == 3   \* limits 0..MaxSmallLimit are exercised with detailed inputs
MaxEntries == 3      \* entries of a detailed feed page
MaxItems == 2        \* items of a detailed Google Play response
MaxDate == 2         \* parseable dates are the days 1..MaxDate
MaxPage == 2         \* page numbers of direct fetchReviewsPage calls
BigLimit == 201      \* the large limit, exercised with bulk inputs
MaxSample == 6       \* entries after the first on a page sampled for statistics
MaxScraped == 60     \* elements of a bulk scraped page

(* Program constants *)

PageSize == 50           \* reviews the code expects per feed page
LibraryMax == 200        \* cap of the num handed to the scraping library
maxReviews == 100        \* appConfig.settings.maxReviews
DocumentedMax == 200     \* KURULUM.md: maximum reviews per request
MinContentLength == 10   \* a scraped content must be longer than this
MinMerge == 64           \* below this length the engine's sort is one insertion-sorted run

ConfigCountry == "TR"    \* appConfig.settings.country
ConfigLanguage == "tr"   \* appConfig.settings.language

-----------------------------------------------------------------------------
(* Exceptions: a function body returns Return(v) or Throw *)

Return(v) == [threw |-> FALSE, value |-> v]
Throw == [threw |-> TRUE, value |-> <<>>]

\* try { body } catch { return fallback }
TryCatch(r, fallback) == IF r.threw THEN Return(fallback) ELSE r

Min(a, b) == IF a < b THEN a ELSE b

\* Math.ceil(a / b) for b > 0
Ceil(a, b) == IF a % b = 0 THEN a \div b ELSE (a \div b) + 1

-----------------------------------------------------------------------------
(* Texts. A text is a string; what the code's regular expressions and       *)
(* length tests say about the texts of the model is tabulated here.         *)

TrLong == "bu uygulama iyi"
EnLong == "Great app, works fine"
TrShort == "iyi"
EnCapital == "I like this app"
TrVeryLong == "bu uygulama ile alisveris yapmak cok kolay ve hizli, tavsiye ederim"

\* text.length
StrLen(text) ==
  CASE text = "" -> 0
    [] text = TrShort -> 3
    [] text = TrLong -> 15
    [] text = EnLong -> 21
    [] text = EnCapital -> 15
    [] text = TrVeryLong -> 63
    [] OTHER -> 8

\* /[...ÇĞIİÖŞÜ]/.test(text): the class holds the ASCII capital I
HasTurkishChar(text) == text = EnCapital

\* /\b(ve|bir|bu|...|iyi|...|uygulama|oyun)\b/i.test(text)
HasTurkishWord(text) == text \in {TrLong, TrShort, TrVeryLong}

\* text.includes(' ')
HasSpace(text) == text \in {TrLong, EnLong, EnCapital, TrVeryLong}

isTurkishContent(text) == HasTurkishChar(text) \/ HasTurkishWord(text)

\* parseInt of a rating label
ParseRating(label) ==
  CASE label = "1" -> 1
    [] label = "4" -> 4
    [] label = "5" -> 5
    [] label = "9" -> 9
    [] OTHER -> 0

-----------------------------------------------------------------------------
(* App Store feed entries *)

NoId == <<>>

\* Date.now(), and new Date() as a day: requests run on the newest day
Now == 0
Today == MaxDate

\* The entries a feed page is built from. id is filled in by FeedEntries.
\* content "" : the entry has no content.label; rating "": no im:rating;
\* updated 0: no updated.label (or one Date cannot parse); author "": no
\* author, "noname": an author object without name.
AppInfoEntry ==
  [hasId |-> TRUE, id |-> NoId, author |-> "", rating |-> "", content |-> "", updated |-> 0]
EntryKinds ==
  { AppInfoEntry,
    [hasId |-> TRUE, id |-> NoId, author |-> "ayse", rating |-> "5", content |-> TrLong, updated |-> MaxDate],
    [hasId |-> TRUE, id |-> NoId, author |-> "mehmet", rating |-> "1", content |-> TrLong, updated |-> 1],
    [hasId |-> TRUE, id |-> NoId, author |-> "john", rating |-> "4", content |-> EnLong, updated |-> MaxDate],
    [hasId |-> TRUE, id |-> NoId, author |-> "", rating |-> "", content |-> EnCapital, updated |-> 0],
    [hasId |-> FALSE, id |-> NoId, author |-> "ali", rating |-> "5", content |-> TrLong, updated |-> 1],
    [hasId |-> TRUE, id |-> NoId, author |-> "noname", rating |-> "9", content |-> TrLong, updated |-> 1] }

\* The entries of feed page number page: entry i carries the id <<page, i>>.
FeedEntries(kinds, page) ==
  [i \in 1..Len(kinds) |->
     [kinds[i] EXCEPT !.id = IF kinds[i].hasId THEN <<page, i>> ELSE NoId]]

\* Responses of the feed request of one page
FeedFailures ==
  { [kind |-> "error", status |-> 404, entries |-> <<>>],
    [kind |-> "error", status |-> 0, entries |-> <<>>],
    [kind |-> "nofeed", status |-> 200, entries |-> <<>>] }

DetailedPages(page) ==
  { [kind |-> "feed", status |-> 200, entries |-> FeedEntries(k, page)] :
      k \in UNION { [1..n -> EntryKinds] : n \in 0..MaxEntries } }

Countries == {"tr", ConfigCountry, "us"}

-----------------------------------------------------------------------------
(* AppStoreService.fetchReviewsPage *)

\* The review object built from an entry; entry.id.label and
\* entry.author.name.label throw a TypeError on a missing object.
ReviewOfEntry(entry, country) ==
  IF entry.id = NoId \/ entry.author = "noname"
  THEN Throw
  ELSE Return([id |-> <<"as", entry.id[1], entry.id[2]>>,
               platform |-> "App Store",
               author |-> IF entry.author = "" THEN "Anonymous" ELSE entry.author,
               rating |-> IF entry.rating = "" THEN 0 ELSE ParseRating(entry.rating),
               content |-> entry.content,
               date |-> entry.updated,
               language |-> country])

\* The filter of an extracted review
\* (mutant: the country is compared with the configured 'TR')
KeepReviewConfigured(review, country) ==
  isTurkishContent(review.content) \/ country = ConfigCountry

KeepReview(review, country) == isTurkishContent(review.content) \/ country = "tr"

\* The index of the first entry the loop looks at (JavaScript index 1)
FirstIndex == 2

\* The indices first..last in order
Indices(first, last) == [k \in 1..(last - first + 1) |-> first + k - 1]

\* (mutant: the reviews pushed before the entry that throws are returned)
EntryLoopKeepingExtracted(entries, first, country) ==
  LET HasContent(i) == entries[i].content # ""
      Throws(i) == HasContent(i) /\ ReviewOfEntry(entries[i], country).threw
      Pushed(i) == /\ HasContent(i)
                   /\ \A j \in first..i : ~Throws(j)
                   /\ KeepReview(ReviewOfEntry(entries[i], country).value, country)
      pushed == SelectSeq(Indices(first, Len(entries)), Pushed)
  IN Return([k \in 1..Len(pushed) |-> ReviewOfEntry(entries[pushed[k]], country).value])

\* for (let i = 1; i < entries.length; i++): the loop throws at the first
\* entry with content whose review object cannot be built; otherwise it
\* pushes, in order, the reviews the filter keeps.
EntryLoop(entries, first, country) ==
  LET HasContent(i) == entries[i].content # ""
      Pushed(i) == /\ HasContent(i)
                   /\ KeepReview(ReviewOfEntry(entries[i], country).value, country)
      pushed == SelectSeq(Indices(first, Len(entries)), Pushed)
  IN IF \E i \in first..Len(entries) :
          HasContent(i) /\ ReviewOfEntry(entries[i], country).threw
     THEN Throw
     ELSE Return([k \in 1..Len(pushed) |-> ReviewOfEntry(entries[pushed[k]], country).value])

\* (mutant: the loop starts at the first entry)
fetchReviewsPageBodyFromFirst(resp, country, page) ==
  IF resp.kind = "error" THEN Throw
  ELSE IF resp.kind = "nofeed" THEN Return(<<>>)
  ELSE EntryLoop(resp.entries, FirstIndex - 1, country)

fetchReviewsPageBody(resp, country, page) ==
  IF resp.kind = "error" THEN Throw
  ELSE IF resp.kind = "nofeed" THEN Return(<<>>)
  ELSE EntryLoop(resp.entries, FirstIndex, country)

fetchReviewsPage(resp, country, page) ==
  TryCatch(fetchReviewsPageBody(resp, country, page), <<>>)

-----------------------------------------------------------------------------
(* GooglePlayService.getReviewsWithLibrary *)

\* What gplay.reviews hands back. An item is a raw review or null;
\* date "absent": no date, "invalid": a value Date cannot parse.
NullItem ==
  [isNull |-> TRUE, id |-> 0, userName |-> "", score |-> 0, text |-> "", date |-> "absent", day |-> 0]
LibraryItems ==
  { [isNull |-> FALSE, id |-> 1, userName |-> "ayse", score |-> 5, text |-> TrLong, date |-> "valid", day |-> MaxDate],
    [isNull |-> FALSE, id |-> 2, userName |-> "john", score |-> 3, text |-> EnLong, date |-> "valid", day |-> 1],
    [isNull |-> FALSE, id |-> 3, userName |-> "mehmet", score |-> 4, text |-> TrShort, date |-> "valid", day |-> 1],
    [isNull |-> FALSE, id |-> 0, userName |-> "", score |-> 0, text |-> TrLong, date |-> "invalid", day |-> 0],
    NullItem }

\* The formatted date of a raw review: toISOString() of its date, and of
\* new Date() when it has none or toISOString throws a RangeError.
FormattedDate(item) == IF item.date = "valid" THEN item.day ELSE Today

\* The object the map callback builds; reading review.id of null throws.
FormatLibraryReview(item, index, language) ==
  IF item.isNull THEN Throw
  ELSE Return([id |-> <<"gp_lib", IF item.id = 0 THEN Now ELSE item.id, index>>,
               platform |-> "Google Play",
               author |-> IF item.userName = "" THEN "Anonymous" ELSE item.userName,
               rating |-> item.score,
               content |-> item.text,
               date |-> FormattedDate(item),
               language |-> language])

\* review.content && review.content.length > 10
LongEnough(review) == review.content # "" /\ StrLen(review.content) > MinContentLength

\* reviews.data.map(...).filter(...): the map throws at a null item
MapFilterLibrary(items, language) ==
  LET Formatted(i) == FormatLibraryReview(items[i], i - 1, language)
      Passes(i) == LongEnough(Formatted(i).value)
      passing == SelectSeq(Indices(1, Len(items)), Passes)
  IN IF \E i \in 1..Len(items) : Formatted(i).threw
     THEN Throw
     ELSE Return([k \in 1..Len(passing) |-> Formatted(passing[k]).value])

getReviewsWithLibraryBody(resp, language, lim) ==
  IF resp.kind = "error" THEN Throw
  ELSE IF resp.kind = "empty" \/ Len(resp.items) = 0 THEN Return(<<>>)
  ELSE MapFilterLibrary(resp.items, language)

\* (mutant: the library's exception is not caught)
getReviewsWithLibraryUncaught(resp, language, lim) ==
  getReviewsWithLibraryBody(resp, language, lim)

getReviewsWithLibrary(resp, language, lim) ==
  TryCatch(getReviewsWithLibraryBody(resp, language, lim), <<>>)

\* num: Math.min(limit, 200)
LibraryNum(lim) == Min(lim, LibraryMax)

-----------------------------------------------------------------------------
(* GooglePlayService.getReviewsFromPlayStore and parsePlayStoreReviews *)

\* The .RHo1pe elements of the endpoint's HTML: author (.X5PpBb), the
\* number of .iXRFPc elements, the date text (.bp9Aid; date 0: a text Date
\* cannot parse) and the content (.h3YV2d).
ApiElements ==
  { [author |-> "ayse", stars |-> 5, date |-> 0, content |-> TrLong],
    [author |-> "john", stars |-> 0, date |-> 1, content |-> TrShort],
    [author |-> "", stars |-> 4, date |-> MaxDate, content |-> TrLong],
    [author |-> "veli", stars |-> 6, date |-> MaxDate, content |-> "" ],
    [author |-> "can", stars |-> 6, date |-> 1, content |-> TrLong] }

\* pageReviews.slice(0, n), and the first n pushes of an each() loop that
\* returns false once n reviews are pushed
Slice(s, n) == SubSeq(s, 1, Min(Len(s), n))

ApiReview(e, index) ==
  [id |-> <<"gp_api", Now, index>>,
   platform |-> "Google Play",
   author |-> e.author,
   rating |-> e.stars,
   content |-> e.content,
   date |-> e.date,
   language |-> "tr"]

\* $('.RHo1pe').each(...): the elements with content and author are pushed
\* in order until limit reviews are pushed
ParseElements(elements, lim) ==
  LET Pushed(i) == elements[i].content # "" /\ elements[i].author # ""
      pushed == Slice(SelectSeq(Indices(1, Len(elements)), Pushed), lim)
  IN [k \in 1..Len(pushed) |-> ApiReview(elements[pushed[k]], pushed[k] - 1)]

\* htmlContent "unloadable": cheerio.load throws on it
parsePlayStoreReviews(html, lim) ==
  TryCatch(IF html.loadable THEN Return(ParseElements(html.elements, lim)) ELSE Throw,
           <<>>)

getReviewsFromPlayStoreBody(resp, language, lim) ==
  IF resp.kind = "error" THEN Throw
  ELSE IF resp.kind = "short" THEN Return(<<>>)
  ELSE IF resp.kind = "badjson" THEN Throw
  ELSE IF resp.kind = "nodata" THEN Return(<<>>)
  ELSE parsePlayStoreReviews(resp.html, lim)

getReviewsFromPlayStore(resp, language, lim) ==
  TryCatch(getReviewsFromPlayStoreBody(resp, language, lim), <<>>)

-----------------------------------------------------------------------------
(* GooglePlayService.extractReviewsFromJavaScript, parseNestedReviewData,  *)
(* parseReviewArray                                                        *)

\* JSON values of an AF_initDataCallback data array
Str(text) == [t |-> "str", s |-> text, n |-> 0, items |-> <<>>]
Num(k) == [t |-> "num", s |-> "", n |-> k, items |-> <<>>]
Arr(values) == [t |-> "arr", s |-> "", n |-> 0, items |-> values]
InvalidJson == [t |-> "invalid", s |-> "", n |-> 0, items |-> <<>>]

\* arr.find(pred) over hits, the elements of arr satisfying pred in order: the first one, as a sequence of 0 or 1
FirstWhere(hits) ==
  IF hits = <<>> THEN <<>> ELSE <<hits[1]>>

parseReviewArray(arr) ==
  LET IsContent(v) == v.t = "str" /\ StrLen(v.s) > 20 /\ StrLen(v.s) < 1000
      possibleContent == FirstWhere(SelectSeq(arr, IsContent))
      IsAuthor(v) == /\ v.t = "str" /\ StrLen(v.s) > 2 /\ StrLen(v.s) < 50
                     /\ ~HasSpace(v.s)
                     /\ (possibleContent = <<>> \/ v.s # possibleContent[1].s)
      possibleAuthor == FirstWhere(SelectSeq(arr, IsAuthor))
      IsRating(v) == v.t = "num" /\ v.n >= 1 /\ v.n <= 5
      possibleRating == FirstWhere(SelectSeq(arr, IsRating))
  IN IF possibleContent # <<>> /\ possibleAuthor # <<>>
     THEN << [id |-> <<"gp_js", Now, 0>>,
              platform |-> "Google Play",
              author |-> possibleAuthor[1].s,
              rating |-> IF possibleRating = <<>> THEN 0 ELSE possibleRating[1].n,
              content |-> possibleContent[1].s,
              date |-> Today,
              language |-> "tr"] >>
     ELSE <<>>

\* item.length > 5 && typeof item[0] === 'string' && item.some(long string)
LooksLikeReview(item) ==
  /\ Len(item.items) > 5
  /\ item.items[1].t = "str"
  /\ \E k \in 1..Len(item.items) : item.items[k].t = "str" /\ StrLen(item.items[k].s) > 50

RECURSIVE parseNestedReviewData(_, _)
RECURSIVE NestedLoop(_, _, _, _)
NestedLoop(items, i, lim, reviews) ==
  IF i > Len(items) \/ Len(reviews) >= lim THEN reviews
  ELSE IF items[i].t = "arr"
       THEN IF LooksLikeReview(items[i])
            THEN NestedLoop(items, i + 1, lim, reviews \o parseReviewArray(items[i].items))
            ELSE NestedLoop(items, i + 1, lim,
                            reviews \o parseNestedReviewData(items[i], lim - Len(reviews)))
       ELSE NestedLoop(items, i + 1, lim, reviews)

parseNestedReviewData(data, lim) ==
  IF data.t # "arr" THEN <<>> ELSE NestedLoop(data.items, 1, lim, <<>>)

RECURSIVE MatchLoop(_, _, _, _)
MatchLoop(blocks, i, lim, reviews) ==
  IF i > Len(blocks) \/ ~(Len(reviews) < lim) THEN reviews
  ELSE IF blocks[i].t = "invalid"
       THEN MatchLoop(blocks, i + 1, lim, reviews)
       ELSE MatchLoop(blocks, i + 1, lim,
                      reviews \o parseNestedReviewData(blocks[i], lim - Len(reviews)))

extractReviewsFromJavaScript(blocks, lim) == MatchLoop(blocks, 1, lim, <<>>)

-----------------------------------------------------------------------------
(* GooglePlayService.scrapeReviewsFromWeb *)

reviewSelectors == <<"[data-review-id]", ".RHo1pe", ".review-item", ".single-review">>

\* rating.match(/(\d+)/): the first number of the aria-label / data-rating
FirstNumber(label) ==
  CASE label = "4" -> <<4>>
    [] label = "10 stars" -> <<10>>
    [] OTHER -> <<>>

\* The elements a selector matches: author, rating attribute, number of
\* star elements, the rating extractRatingFromText reads in the text, the
\* date text ("absent": none, "unparseable": one Date cannot parse) and the
\* content found by the selectors or by extractContentFromReviewElement.
UsableElement ==
  [author |-> "ayse", ratingAttr |-> "4", stars |-> 0, textRating |-> 0,
   date |-> "unparseable", day |-> 0, content |-> TrLong]
WebElements ==
  { UsableElement,
    [author |-> "", ratingAttr |-> "", stars |-> 3, textRating |-> 0,
     date |-> "absent", day |-> 0, content |-> EnLong],
    [author |-> "john", ratingAttr |-> "10 stars", stars |-> 0, textRating |-> 0,
     date |-> "valid", day |-> 1, content |-> TrShort],
    [author |-> "can", ratingAttr |-> "10 stars", stars |-> 0, textRating |-> 0,
     date |-> "valid", day |-> MaxDate, content |-> TrLong] }

WebReview(e, index, language) ==
  [id |-> <<"gp_web", Now, index>>,
   platform |-> "Google Play",
   author |-> IF e.author = "" THEN "Anonymous" ELSE e.author,
   rating |-> IF FirstNumber(e.ratingAttr) # <<>> THEN FirstNumber(e.ratingAttr)[1]
              ELSE IF e.stars > 0 THEN e.stars ELSE e.textRating,
   content |-> e.content,
   date |-> IF e.date = "absent" THEN Today ELSE IF e.date = "valid" THEN e.day ELSE 0,
   language |-> language]

\* reviewElements.each(...): the elements with a long enough content are
\* pushed in order until limit reviews are pushed
EachElement(elements, lim, language) ==
  LET Pushed(i) == /\ elements[i].content # ""
                   /\ StrLen(elements[i].content) > MinContentLength
      pushed == Slice(SelectSeq(Indices(1, Len(elements)), Pushed), lim)
  IN [k \in 1..Len(pushed) |-> WebReview(elements[pushed[k]], pushed[k] - 1, language)]

\* (mutant: a selector whose elements would all be discarded is passed over)
FirstMatchingUsable(dom, k) ==
  LET Usable(j) == \E i \in 1..Len(dom[j]) : StrLen(dom[j][i].content) > MinContentLength
      usable == { j \in k..Len(reviewSelectors) : Usable(j) }
  IN IF usable = {} THEN <<>>
     ELSE dom[CHOOSE j \in usable : \A other \in usable : j <= other]

\* The elements of the first selector that matches any
RECURSIVE FirstMatching(_, _)
FirstMatching(dom, k) ==
  IF k > Len(reviewSelectors) THEN <<>>
  ELSE IF Len(dom[k]) > 0 THEN dom[k]
  ELSE FirstMatching(dom, k + 1)

scrapeReviewsFromWebBody(resp, language, lim) ==
  IF resp.kind = "error" THEN Throw
  ELSE LET jsReviews == extractReviewsFromJavaScript(resp.js, lim) IN
       IF Len(jsReviews) > 0 THEN Return(jsReviews)
       ELSE Return(EachElement(FirstMatching(resp.dom, 1), lim, language))

scrapeReviewsFromWeb(resp, language, lim) ==
  TryCatch(scrapeReviewsFromWebBody(resp, language, lim), <<>>)

-----------------------------------------------------------------------------
(* Direct calls of fetchReviewsPage *)

NoPageCall ==
  [called |-> FALSE, country |-> "", page |-> 0,
   resp |-> [kind |-> "nofeed", status |-> 200, entries |-> <<>>],
   result |-> Return(<<>>)]

\* fetchReviewsPage is called with any country and page, and the feed
\* answers
PageCall ==
  /\ pc = "idle"
  /\ ~pageCall.called /\ ~feedCall.called /\ ~webCall.called /\ ~statsCall.called
  /\ \E country \in Countries, page \in 1..MaxPage :
       \E resp \in FeedFailures \cup DetailedPages(page) :
         pageCall' = [called |-> TRUE, country |-> country, page |-> page,
                      resp |-> resp, result |-> fetchReviewsPage(resp, country, page)]
  /\ UNCHANGED <<pc, endpoint, query, limit, gp, as, response, settled, gpInfo, asInfo, asStats, feedCall, webCall, statsCall, pair>>

\* The caller drops the result
PageForget ==
  /\ pageCall.called
  /\ pageCall' = NoPageCall
  /\ UNCHANGED <<pc, endpoint, query, limit, gp, as, response, settled, gpInfo, asInfo, asStats, feedCall, webCall, statsCall, pair>>

-----------------------------------------------------------------------------
(* Array.prototype.sort with the handler's comparator *)

\* (a, b) => new Date(b.date) - new Date(a.date); the engine reads NaN as 0
Compare(a, b) == IF a.date = 0 \/ b.date = 0 THEN 0 ELSE b.date - a.date

\* The end of the run that starts the array (the engine's CountAndMakeRun)
RECURSIVE RunEnd(_, _, _)
RunEnd(s, idx, descending) ==
  IF idx > Len(s) THEN idx - 1
  ELSE LET order == Compare(s[idx], s[idx - 1]) IN
       IF (descending /\ order >= 0) \/ (~descending /\ order < 0)
       THEN idx - 1
       ELSE RunEnd(s, idx + 1, descending)

Reverse(s) == [i \in 1..Len(s) |-> s[Len(s) + 1 - i]]

\* The insertion point of pivot among s[left..right-1]
RECURSIVE BinarySearch(_, _, _, _)
BinarySearch(s, pivot, left, right) ==
  IF left >= right THEN left
  ELSE LET mid == left + ((right - left) \div 2) IN
       IF Compare(pivot, s[mid]) < 0
       THEN BinarySearch(s, pivot, left, mid)
       ELSE BinarySearch(s, pivot, mid + 1, right)

RECURSIVE BinaryInsertionSort(_, _)
BinaryInsertionSort(s, start) ==
  IF start > Len(s) THEN s
  ELSE LET left == BinarySearch(s, s[start], 1, start) IN
       BinaryInsertionSort(
         SubSeq(s, 1, left - 1) \o <<s[start]>> \o SubSeq(s, left, start - 1)
           \o SubSeq(s, start + 1, Len(s)),
         start + 1)

\* An array shorter than MinMerge is one run: its leading run is found
\* (and reversed when strictly descending), the rest is inserted into it.
SortShort(s) ==
  IF Len(s) < 2 THEN s
  ELSE LET descending == Compare(s[2], s[1]) < 0
           run == RunEnd(s, 3, descending)
           made == IF descending
                   THEN Reverse(SubSeq(s, 1, run)) \o SubSeq(s, run + 1, Len(s))
                   ELSE s
       IN BinaryInsertionSort(made, run + 1)

\* A longer array is merged from runs; the sort is stable, so on parseable
\* dates the result is the reviews of each day in their order, newest day
\* first. (Longer arrays are only built from reviews with parseable dates.)
RECURSIVE ByDayFrom(_, _)
ByDayFrom(s, day) ==
  IF day < 1 THEN <<>>
  ELSE LET OfDay(r) == r.date = day IN SelectSeq(s, OfDay) \o ByDayFrom(s, day - 1)

SortByDate(s) == IF Len(s) < MinMerge THEN SortShort(s) ELSE ByDayFrom(s, MaxDate)

-----------------------------------------------------------------------------
(* The responses of the storefronts *)

SeqsUpTo(S, n) == UNION { [1..k -> S] : k \in 0..n }

\* The elements of a set, in some order
RECURSIVE SetToSeq(_)
SetToSeq(S) ==
  IF S = {} THEN <<>> ELSE LET x == CHOOSE x \in S : TRUE IN <<x>> \o SetToSeq(S \ {x})

\* Limits up to MaxSmallLimit are exercised with every detailed response,
\* larger ones with bulk responses of well-formed, dated reviews.
Detailed(lim) == lim <= MaxSmallLimit

BulkEntry(i) ==
  [hasId |-> TRUE, id |-> NoId, author |-> "ayse", rating |-> "5", content |-> TrLong,
   updated |-> 1 + (i % MaxDate)]

\* A page of PageSize reviews after the app information entry, and a page of
\* PageSize entries that are all reviews
BulkPages(page) ==
  { [kind |-> "feed", status |-> 200,
     entries |-> FeedEntries(<<AppInfoEntry>> \o [i \in 1..PageSize |-> BulkEntry(i)], page)],
    [kind |-> "feed", status |-> 200,
     entries |-> FeedEntries([i \in 1..PageSize |-> BulkEntry(i)], page)] }

\* The app information followed by up to MaxItems entries of any kind
SmallPages(page) ==
  { [kind |-> "feed", status |-> 200, entries |-> FeedEntries(<<AppInfoEntry>> \o k, page)] :
      k \in SeqsUpTo(EntryKinds, MaxItems) }

FeedResponses(lim, page) ==
  FeedFailures \cup (IF Detailed(lim) THEN SmallPages(page) ELSE BulkPages(page))

BulkLibraryItem(i) ==
  [isNull |-> FALSE, id |-> i, userName |-> "ayse", score |-> 5, text |-> TrLong,
   date |-> "valid", day |-> 1 + (i % MaxDate)]

\* gplay.reviews returns at most num reviews
LibraryResponses(num) ==
  { [kind |-> "error", items |-> <<>>], [kind |-> "empty", items |-> <<>>] }
  \cup (IF Detailed(num)
        THEN { [kind |-> "data", items |-> items] :
                 items \in SeqsUpTo(LibraryItems, Min(num, MaxItems)) }
        ELSE { [kind |-> "data", items |-> [i \in 1..num |-> BulkLibraryItem(i)]] })

NoHtml == [loadable |-> TRUE, elements |-> <<>>]
BulkApiElement == [author |-> "ayse", stars |-> 5, date |-> 1, content |-> TrLong]

\* The endpoint is not told the limit: it may return more elements than
\* asked for (detailed responses), or fewer (a bulk page of MaxScraped)
ApiResponses(lim) ==
  { [kind |-> k, html |-> NoHtml] : k \in {"error", "short", "badjson", "nodata"} }
  \cup { [kind |-> "html", html |-> [loadable |-> FALSE, elements |-> <<>>]] }
  \cup (IF Detailed(lim)
        THEN { [kind |-> "html", html |-> [loadable |-> TRUE, elements |-> els]] :
                 els \in SeqsUpTo(ApiElements, MaxItems) }
        ELSE { [kind |-> "html",
                html |-> [loadable |-> TRUE, elements |-> [i \in 1..MaxScraped |-> BulkApiElement]]] })

ReviewArray(author, content, rating) ==
  Arr(<<Str(author), Str(content), Num(rating), Num(0), Str(""), Num(0)>>)

\* The AF_initDataCallback blocks of a page
JsBlocks ==
  { <<>>,
    <<InvalidJson>>,
    <<Arr(<<ReviewArray("ayse", TrVeryLong, 4)>>)>>,
    <<InvalidJson,
      Arr(<<Num(0), Arr(<<ReviewArray("ayse", TrVeryLong, 4), ReviewArray("veli", TrVeryLong, 0)>>),
            ReviewArray("john", TrVeryLong, 5)>>)>>,
    <<Arr(<<ReviewArray("a b", TrVeryLong, 4)>>)>> }

NoDom == [k \in 1..Len(reviewSelectors) |-> <<>>]

\* Pages on which one selector matches, and pages on which a later one
\* matches too
Doms ==
  {NoDom}
  \cup { [NoDom EXCEPT ![k] = els] :
           k \in 1..Len(reviewSelectors), els \in SeqsUpTo(WebElements, MaxItems) \ {<<>>} }
  \cup { [NoDom EXCEPT ![k] = els, ![k + 1] = later] :
           k \in 1..(Len(reviewSelectors) - 1),
           els \in SeqsUpTo(WebElements, MaxItems) \ {<<>>},
           later \in { << UsableElement >> } }

\* The pages that carry JavaScript data match no selector, or the first
\* selector matches every kind of element
JsDoms ==
  { NoDom, [NoDom EXCEPT ![1] = SetToSeq(WebElements)] }

BulkWebElement ==
  [author |-> "ayse", ratingAttr |-> "4", stars |-> 0, textRating |-> 0,
   date |-> "valid", day |-> 1, content |-> TrLong]

WebResponses(lim) ==
  { [kind |-> "error", js |-> <<>>, dom |-> NoDom] }
  \cup (IF Detailed(lim)
        THEN { [kind |-> "page", js |-> js, dom |-> dom] : js \in JsBlocks, dom \in JsDoms }
             \cup { [kind |-> "page", js |-> <<>>, dom |-> dom] : dom \in Doms }
        ELSE { [kind |-> "page", js |-> <<>>,
                dom |-> [NoDom EXCEPT ![1] = [i \in 1..MaxScraped |-> BulkWebElement]]] })

-----------------------------------------------------------------------------
(* GooglePlayService.fetchReviews: the position after an awaited tier *)

TierNames == <<"library", "api", "web">>

IdleGp == [status |-> "idle", tier |-> 0, limit |-> 0, log |-> <<>>, value |-> <<>>]

\* The call runs up to its first await: the library call is pending
GpStart(lim) == [IdleGp EXCEPT !.status = "pending", !.tier = 1, !.limit = lim]

\* log: the tiers that completed, with the list each returned and whether
\* its storefront request failed
GpLogged(g, r, failed) ==
  Append(g.log, [tier |-> TierNames[g.tier], out |-> r.value, failed |-> failed])

\* (mutant: an empty library result goes straight to the web scrape)
GpAfterTierSkippingApi(g, r, failed) ==
  IF r.threw
  THEN [g EXCEPT !.status = "rejected", !.tier = 0, !.log = GpLogged(g, r, failed)]
  ELSE IF g.tier = Len(TierNames) \/ Len(r.value) > 0
  THEN [g EXCEPT !.status = "fulfilled", !.tier = 0, !.value = r.value,
                 !.log = GpLogged(g, r, failed)]
  ELSE [g EXCEPT !.tier = Len(TierNames), !.log = GpLogged(g, r, failed)]

\* r is what the awaited tier returned or threw
GpAfterTier(g, r, failed) ==
  IF r.threw
  THEN [g EXCEPT !.status = "rejected", !.tier = 0, !.log = GpLogged(g, r, failed)]
  ELSE IF g.tier = Len(TierNames) \/ Len(r.value) > 0
  THEN [g EXCEPT !.status = "fulfilled", !.tier = 0, !.value = r.value,
                 !.log = GpLogged(g, r, failed)]
  ELSE [g EXCEPT !.tier = g.tier + 1, !.log = GpLogged(g, r, failed)]

-----------------------------------------------------------------------------
(* AppStoreService.fetchReviews: the loop between awaited pages *)

IdleAs ==
  [status |-> "idle", limit |-> 0, page |-> 0, reviews |-> <<>>, log |-> <<>>, value |-> <<>>]

maxPages(lim) == Ceil(lim, PageSize)

\* (mutant: the loop is not bounded by maxPages)
AsLoopUnbounded(a) ==
  IF Len(a.reviews) < a.limit
  THEN [a EXCEPT !.status = "pending"]
  ELSE [a EXCEPT !.status = "fulfilled", !.value = a.reviews]

\* while (reviews.length < limit && page <= maxPages): the next page is
\* requested, or the loop ends and the reviews are returned
AsLoop(a) ==
  IF Len(a.reviews) < a.limit /\ a.page <= maxPages(a.limit)
  THEN [a EXCEPT !.status = "pending"]
  ELSE [a EXCEPT !.status = "fulfilled", !.value = a.reviews]

AsStart(lim) == AsLoop([IdleAs EXCEPT !.limit = lim, !.page = 1])

\* log: the pages requested, with the reviews each yielded, their number
\* and whether its request failed
AsLogged(a, r, failed) ==
  Append(a.log, [page |-> a.page, yield |-> Len(r.value), out |-> r.value, failed |-> failed])

\* (mutant: every review of the page is pushed)
AsAfterPageUnsliced(a, r, failed) ==
  IF r.threw
  THEN [a EXCEPT !.status = "rejected", !.log = AsLogged(a, r, failed)]
  ELSE IF Len(r.value) = 0
  THEN [a EXCEPT !.status = "fulfilled", !.value = a.reviews, !.log = AsLogged(a, r, failed)]
  ELSE AsLoop([a EXCEPT !.reviews = a.reviews \o r.value,
                        !.page = a.page + 1,
                        !.log = AsLogged(a, r, failed)])

\* r is what the awaited fetchReviewsPage returned or threw
AsAfterPage(a, r, failed) ==
  IF r.threw
  THEN [a EXCEPT !.status = "rejected", !.log = AsLogged(a, r, failed)]
  ELSE IF Len(r.value) = 0
  THEN [a EXCEPT !.status = "fulfilled", !.value = a.reviews, !.log = AsLogged(a, r, failed)]
  ELSE AsLoop([a EXCEPT !.reviews = a.reviews \o Slice(r.value, a.limit - Len(a.reviews)),
                        !.page = a.page + 1,
                        !.log = AsLogged(a, r, failed)])

-----------------------------------------------------------------------------
(* GooglePlayService.getAppInfo *)

\* What gplay.app resolves with: title "" / score 0 / reviews 0 stand for a
\* missing field; score is in hundredths of a star.
NoApp == [title |-> "", score |-> 0, reviews |-> 0]
AppLibraryResponses ==
  { [kind |-> "error", app |-> NoApp],
    [kind |-> "app", app |-> [title |-> "Koton", score |-> 426, reviews |-> 1234]],
    [kind |-> "app", app |-> NoApp] }

\* score.toFixed(1): rounded to one decimal
ToFixed1(hundredths) ==
  LET tenths == (hundredths + 5) \div 10
  IN ToString(tenths \div 10) \o "." \o ToString(tenths % 10)

\* reviews.toLocaleString(): groups of three digits
ToLocaleString(n) ==
  IF n < 1000 THEN ToString(n)
  ELSE ToString(n \div 1000) \o ","
       \o (IF n % 1000 < 10 THEN "00" ELSE IF n % 1000 < 100 THEN "0" ELSE "")
       \o ToString(n % 1000)

NullGpInfo ==
  [isNull |-> TRUE, source |-> "", name |-> "", rating |-> "", reviews_count |-> ""]

\* The object built from the library's answer
FormatApp(app) ==
  [isNull |-> FALSE, source |-> "library",
   name |-> app.title,
   rating |-> IF app.score # 0 THEN ToFixed1(app.score) ELSE "0",
   reviews_count |-> IF app.reviews # 0 THEN ToLocaleString(app.reviews) ELSE "0"]

\* The store page of the app: the texts its selectors find ("" when a
\* selector matches nothing)
AppPageResponses ==
  { [kind |-> "error", name |-> "", rating |-> "", reviews_count |-> ""],
    [kind |-> "page", name |-> "Koton", rating |-> "4,3", reviews_count |-> "1,23 B yorum"],
    [kind |-> "page", name |-> "", rating |-> "", reviews_count |-> ""] }

\* The object built from the store page
ScrapeApp(resp) ==
  IF resp.kind = "error" THEN Throw
  ELSE Return([isNull |-> FALSE, source |-> "scrape", name |-> resp.name,
               rating |-> resp.rating, reviews_count |-> resp.reviews_count])

InfoSteps == <<"library", "page">>

IdleGpInfo == [status |-> "idle", step |-> 0, value |-> NullGpInfo, log |-> <<>>]

\* The call runs up to its first await: gplay.app is pending
GpInfoStart == [IdleGpInfo EXCEPT !.status = "pending", !.step = 1]

\* log: the steps that completed, with the object each produced and whether
\* its request failed
GpInfoLogged(c, out, failed) ==
  Append(c.log, [step |-> InfoSteps[c.step], out |-> out, failed |-> failed])

\* (mutant: a failure of the library is answered with null at once)
GpInfoAfterLibraryNoFallback(c, resp) ==
  IF resp.kind = "error"
  THEN [c EXCEPT !.status = "fulfilled", !.step = 0, !.value = NullGpInfo,
                 !.log = GpInfoLogged(c, NullGpInfo, TRUE)]
  ELSE [c EXCEPT !.status = "fulfilled", !.step = 0, !.value = FormatApp(resp.app),
                 !.log = GpInfoLogged(c, FormatApp(resp.app), FALSE)]

\* gplay.app settled: its object is returned, or the inner catch falls
\* through to the request of the store page
GpInfoAfterLibrary(c, resp) ==
  IF resp.kind = "error"
  THEN [c EXCEPT !.step = 2, !.log = GpInfoLogged(c, NullGpInfo, TRUE)]
  ELSE [c EXCEPT !.status = "fulfilled", !.step = 0, !.value = FormatApp(resp.app),
                 !.log = GpInfoLogged(c, FormatApp(resp.app), FALSE)]

\* The request of the store page settled
GpInfoAfterPage(c, resp) ==
  LET r == TryCatch(ScrapeApp(resp), NullGpInfo)
  IN [c EXCEPT !.status = "fulfilled", !.step = 0, !.value = r.value,
               !.log = GpInfoLogged(c, r.value, resp.kind = "error")]

-----------------------------------------------------------------------------
(* AppStoreService.getAppInfo and getReviewsStats *)

\* The answer of the lookup request: no results field, an empty results
\* array, or the app; averageUserRating is in tenths of a star,
\* formattedPrice "" stands for a missing field.
NoLookupApp ==
  [trackName |-> "", averageUserRating |-> 0, userRatingCount |-> 0, formattedPrice |-> ""]
LookupResponses ==
  { [kind |-> "error", results |-> <<>>],
    [kind |-> "nodata", results |-> <<>>],
    [kind |-> "data", results |-> <<>>],
    [kind |-> "data",
     results |-> << [trackName |-> "Koton", averageUserRating |-> 45,
                     userRatingCount |-> 900, formattedPrice |-> ""] >>] }

NullAsInfo ==
  [isNull |-> TRUE, name |-> "", rating |-> 0, reviews_count |-> 0, price |-> ""]

getAppInfoBody(resp) ==
  IF resp.kind = "error" THEN Throw
  ELSE IF resp.kind = "data" /\ Len(resp.results) > 0
  THEN LET app == resp.results[1] IN
       Return([isNull |-> FALSE,
               name |-> app.trackName,
               rating |-> app.averageUserRating,
               reviews_count |-> app.userRatingCount,
               price |-> IF app.formattedPrice = "" THEN "Free" ELSE app.formattedPrice])
  ELSE Return(NullAsInfo)

getAppInfo(resp) == TryCatch(getAppInfoBody(resp), NullAsInfo)

IdleAsInfo == [status |-> "idle", value |-> NullAsInfo, failed |-> FALSE]
AsInfoStart == [IdleAsInfo EXCEPT !.status = "pending"]

\* The lookup request settled
AsInfoAfterLookup(c, resp) ==
  [c EXCEPT !.status = "fulfilled", !.value = getAppInfo(resp).value,
            !.failed = resp.kind = "error"]

StatsSample == 50    \* the reviews fetched as the sample of the statistics
RecentCount == 5     \* the reviews listed as recent_reviews
Stars == 1..5        \* the keys of rating_distribution

NullStats ==
  [isNull |-> TRUE, total_reviews |-> 0, average_rating |-> 0, sample_size |-> 0,
   rating_distribution |-> [k \in Stars |-> 0], recent_reviews |-> <<>>]

\* (mutant: app info is not tested and every sampled review is listed)
getReviewsStatsBodyUnchecked(appInfo, a) ==
  IF a.status = "rejected" THEN Throw
  ELSE Return([isNull |-> FALSE,
               total_reviews |-> appInfo.reviews_count,
               average_rating |-> appInfo.rating,
               sample_size |-> Len(a.value),
               rating_distribution |->
                 [k \in Stars |-> Cardinality({ i \in 1..Len(a.value) : a.value[i].rating = k })],
               recent_reviews |-> a.value])

\* getReviewsStats after both of its awaits: a is the settled fetchReviews
getReviewsStatsBody(appInfo, a) ==
  IF a.status = "rejected" THEN Throw
  ELSE IF appInfo.isNull THEN Return(NullStats)
  ELSE Return([isNull |-> FALSE,
               total_reviews |-> appInfo.reviews_count,
               average_rating |-> appInfo.rating,
               sample_size |-> Len(a.value),
               rating_distribution |->
                 [k \in Stars |-> Cardinality({ i \in 1..Len(a.value) : a.value[i].rating = k })],
               recent_reviews |-> Slice(a.value, RecentCount)])

getReviewsStats(appInfo, a) == TryCatch(getReviewsStatsBody(appInfo, a), NullStats)

IdleAsStats == [status |-> "idle", value |-> NullStats]
AsStatsStart == [IdleAsStats EXCEPT !.status = "pending"]

\* The fetchReviews of getReviewsStats took a step: the statistics are
\* returned once it has settled
AsStatsAfter(c, appInfo, a) ==
  IF a.status = "pending" THEN c
  ELSE [c EXCEPT !.status = "fulfilled", !.value = getReviewsStats(appInfo, a).value]

-----------------------------------------------------------------------------
(* The HTTP handlers *)

\* The limit query parameter: absent (""), not a number, a number followed
\* by other characters, or an integer
Queries ==
  {"", "abc", "2px"} \cup { ToString(n) : n \in -1..MaxSmallLimit } \cup { ToString(BigLimit) }

NaN == [nan |-> TRUE, val |-> 0]

\* parseInt reads an optional sign and the leading digits
parseInt(q) ==
  IF q = "2px" THEN [nan |-> FALSE, val |-> 2]
  ELSE IF \E n \in -1..BigLimit : ToString(n) = q
  THEN [nan |-> FALSE, val |-> CHOOSE n \in -1..BigLimit : ToString(n) = q]
  ELSE NaN

\* (mutant: only an unparseable parameter falls back to the default)
ParseLimitKeepingZero(q) ==
  LET n == parseInt(q) IN IF n.nan THEN maxReviews ELSE n.val

\* parseInt(req.query.limit) || appConfig.settings.maxReviews
ParseLimit(q) ==
  LET n == parseInt(q) IN IF n.nan \/ n.val = 0 THEN maxReviews ELSE n.val

\* (mutant: each platform is asked for the whole limit)
limitPerPlatformWhole(lim) == lim

\* const limitPerPlatform = Math.ceil(limit / 2)
limitPerPlatform(lim) == Ceil(lim, 2)

NoResponse ==
  [sent |-> FALSE, status |-> 0, body |-> [success |-> FALSE]]

\* The entry of one platform in the body of GET /reviews
PlatformResult(t, message) ==
  [success |-> t.status = "fulfilled",
   count |-> IF t.status = "fulfilled" THEN Len(t.value) ELSE 0,
   reviews |-> IF t.status = "fulfilled" THEN t.value ELSE <<>>,
   error |-> IF t.status = "fulfilled" THEN "" ELSE message]

\* combined_reviews before it is sorted
\* (mutant: the App Store reviews are not pushed)
CombinedAndroidOnly(g, a) == PlatformResult(g, "").reviews
\* (mutant: the Google Play reviews are pushed a second time instead)
CombinedAndroidTwice(g, a) == PlatformResult(g, "").reviews \o PlatformResult(g, "").reviews
Combined(g, a) == PlatformResult(g, "").reviews \o PlatformResult(a, "").reviews

ReviewsResponse(g, a) ==
  LET combined == SortByDate(Combined(g, a)) IN
  [sent |-> TRUE, status |-> 200,
   body |-> [success |-> TRUE,
             total_reviews |-> Len(combined),
             platforms |-> [android |-> PlatformResult(g, "Failed to fetch Google Play reviews"),
                            ios |-> PlatformResult(a, "Failed to fetch App Store reviews")],
             combined_reviews |-> combined]]

\* The body of GET /reviews/android and GET /reviews/ios
PlatformResponse(t, platform, message) ==
  IF t.status = "fulfilled"
  THEN [sent |-> TRUE, status |-> 200,
        body |-> [success |-> TRUE, platform |-> platform, count |-> Len(t.value),
                  reviews |-> t.value, error |-> ""]]
  ELSE [sent |-> TRUE, status |-> 500,
        body |-> [success |-> FALSE, platform |-> platform, count |-> 0,
                  reviews |-> <<>>, error |-> message]]

\* The entry of one platform in the body of GET /app-info
InfoResult(t, null, message) ==
  [success |-> t.status = "fulfilled",
   info |-> IF t.status = "fulfilled" THEN t.value ELSE null,
   error |-> IF t.status = "rejected" THEN message ELSE ""]

AppInfoResponse(g, a) ==
  [sent |-> TRUE, status |-> 200,
   body |-> [success |-> TRUE,
             android |-> InfoResult(g, NullGpInfo, "rejected"),
             ios |-> InfoResult(a, NullAsInfo, "rejected")]]

\* reviews.reduce(...): how many reviews carry each rating
RatingCounts(reviews) ==
  [k \in { reviews[i].rating : i \in 1..Len(reviews) } |->
     Cardinality({ i \in 1..Len(reviews) : reviews[i].rating = k })]

NullAndroidStats ==
  [isNull |-> TRUE, platform |-> "", sample_size |-> 0, ratings |-> RatingCounts(<<>>),
   recent_reviews |-> <<>>]

\* The async function GET /stats wraps the Google Play fetch in
AndroidStatsCall(g) ==
  [status |-> g.status,
   value |-> IF g.status = "fulfilled"
             THEN [isNull |-> FALSE, platform |-> "Google Play", sample_size |-> Len(g.value),
                   ratings |-> RatingCounts(g.value),
                   recent_reviews |-> Slice(g.value, RecentCount)]
             ELSE NullAndroidStats]

\* The entry of one platform in the body of GET /stats
StatsResult(t, null, message) ==
  [success |-> t.status = "fulfilled",
   stats |-> IF t.status = "fulfilled" THEN t.value ELSE null,
   error |-> IF t.status = "rejected" THEN message ELSE ""]

StatsResponse(g, a) ==
  [sent |-> TRUE, status |-> 200,
   body |-> [success |-> TRUE,
             android |-> StatsResult(g, NullAndroidStats, "Failed to fetch Google Play reviews"),
             ios |-> StatsResult(a, NullStats, "rejected")]]

\* The order of settlement after a step of the call t of a platform
SettledAfter(order, platform, t) ==
  IF t.status = "pending" THEN order ELSE Append(order, platform)

\* (mutant: the results are handed over in the order the fetches settled)
allSettledInCompletionOrder(g, a, order) ==
  IF order # <<>> /\ order[1] = "ios" THEN <<a, g>> ELSE <<g, a>>

\* await Promise.allSettled([googlePlay..., appStore...]): the results are
\* in the order of the array, whichever settled first
allSettled(g, a, order) == <<g, a>>

-----------------------------------------------------------------------------
(* Actions *)

Endpoints == {"reviews", "android", "ios"}
InfoEndpoints == {"app-info", "stats"}

\* A request arrives; the handler runs up to its first await
Request(e, q) ==
  /\ pc = "idle"
  /\ ~pageCall.called /\ ~feedCall.called /\ ~webCall.called /\ ~statsCall.called
  /\ pc' = "running"
  /\ endpoint' = e
  /\ query' = q
  /\ limit' = ParseLimit(q)
  /\ gp' = IF e = "reviews" THEN GpStart(limitPerPlatform(ParseLimit(q)))
           ELSE IF e = "android" THEN GpStart(ParseLimit(q))
           ELSE IdleGp
  /\ as' = IF e = "reviews" THEN AsStart(limitPerPlatform(ParseLimit(q)))
           ELSE IF e = "ios" THEN AsStart(ParseLimit(q))
           ELSE IdleAs
  /\ settled' = IF e # "android" THEN SettledAfter(<<>>, "ios", as') ELSE <<>>
  /\ UNCHANGED <<response, pageCall, feedCall, webCall, gpInfo, asInfo, asStats, statsCall, pair>>

\* A request of /app-info or /stats arrives; the handler runs up to its
\* first await
InfoRequest(e) ==
  /\ pc = "idle"
  /\ ~pageCall.called /\ ~feedCall.called /\ ~webCall.called /\ ~statsCall.called
  /\ pc' = "running"
  /\ endpoint' = e
  /\ query' = ""
  /\ limit' = 0
  /\ gp' = IF e = "stats" THEN GpStart(StatsSample) ELSE IdleGp
  /\ as' = IdleAs
  /\ gpInfo' = IF e = "app-info" THEN GpInfoStart ELSE IdleGpInfo
  /\ asInfo' = AsInfoStart
  /\ asStats' = IF e = "stats" THEN AsStatsStart ELSE IdleAsStats
  /\ settled' = <<>>
  /\ UNCHANGED <<response, pageCall, feedCall, webCall, statsCall, pair>>

\* gplay.reviews settles
LibraryDone ==
  /\ pc = "running" /\ gp.status = "pending" /\ gp.tier = 1
  /\ \E resp \in LibraryResponses(LibraryNum(gp.limit)) :
       gp' = GpAfterTier(gp, getReviewsWithLibrary(resp, ConfigLanguage, gp.limit),
                         resp.kind = "error")
  /\ settled' = SettledAfter(settled, "android", gp')
  /\ UNCHANGED <<pc, endpoint, query, limit, as, response, pageCall, feedCall, webCall, gpInfo, asInfo, asStats, statsCall, pair>>

\* The request of the internal endpoint settles
ApiDone ==
  /\ pc = "running" /\ gp.status = "pending" /\ gp.tier = 2
  /\ \E resp \in ApiResponses(gp.limit) :
       gp' = GpAfterTier(gp, getReviewsFromPlayStore(resp, ConfigLanguage, gp.limit),
                         resp.kind = "error")
  /\ settled' = SettledAfter(settled, "android", gp')
  /\ UNCHANGED <<pc, endpoint, query, limit, as, response, pageCall, feedCall, webCall, gpInfo, asInfo, asStats, statsCall, pair>>

\* The request of the store page settles
WebDone ==
  /\ pc = "running" /\ gp.status = "pending" /\ gp.tier = 3
  /\ \E resp \in WebResponses(gp.limit) :
       gp' = GpAfterTier(gp, scrapeReviewsFromWeb(resp, ConfigLanguage, gp.limit),
                         resp.kind = "error")
  /\ settled' = SettledAfter(settled, "android", gp')
  /\ UNCHANGED <<pc, endpoint, query, limit, as, response, pageCall, feedCall, webCall, gpInfo, asInfo, asStats, statsCall, pair>>

\* The request of a feed page settles
PageDone ==
  /\ pc = "running" /\ as.status = "pending"
  /\ \E resp \in FeedResponses(as.limit, as.page) :
       as' = AsAfterPage(as, fetchReviewsPage(resp, ConfigCountry, as.page),
                         resp.kind = "error")
  /\ asStats' = IF endpoint = "stats" THEN AsStatsAfter(asStats, asInfo.value, as') ELSE asStats
  /\ settled' = SettledAfter(settled, "ios", IF endpoint = "stats" THEN asStats' ELSE as')
  /\ UNCHANGED <<pc, endpoint, query, limit, gp, response, pageCall, feedCall, webCall, gpInfo, asInfo, statsCall, pair>>

\* gplay.app settles
AppLibraryDone ==
  /\ pc = "running" /\ gpInfo.status = "pending" /\ gpInfo.step = 1
  /\ \E resp \in AppLibraryResponses : gpInfo' = GpInfoAfterLibrary(gpInfo, resp)
  /\ settled' = SettledAfter(settled, "android", gpInfo')
  /\ UNCHANGED <<pc, endpoint, query, limit, gp, as, response, pageCall, feedCall, webCall, asInfo, asStats, statsCall, pair>>

\* The request of the app's store page settles
AppPageDone ==
  /\ pc = "running" /\ gpInfo.status = "pending" /\ gpInfo.step = 2
  /\ \E resp \in AppPageResponses : gpInfo' = GpInfoAfterPage(gpInfo, resp)
  /\ settled' = SettledAfter(settled, "android", gpInfo')
  /\ UNCHANGED <<pc, endpoint, query, limit, gp, as, response, pageCall, feedCall, webCall, asInfo, asStats, statsCall, pair>>

\* The lookup request settles; inside getReviewsStats the sample of reviews
\* is fetched next
LookupDone ==
  /\ pc = "running" /\ asInfo.status = "pending"
  /\ \E resp \in LookupResponses : asInfo' = AsInfoAfterLookup(asInfo, resp)
  /\ as' = IF endpoint = "stats" THEN AsStart(StatsSample) ELSE as
  /\ asStats' = IF endpoint = "stats" THEN AsStatsAfter(asStats, asInfo'.value, as') ELSE asStats
  /\ settled' = SettledAfter(settled, "ios", IF endpoint = "stats" THEN asStats' ELSE asInfo')
  /\ UNCHANGED <<pc, endpoint, query, limit, gp, response, pageCall, feedCall, webCall, gpInfo, statsCall, pair>>

\* Every fetch of the request has settled: the response is sent
Respond ==
  /\ pc = "running"
  /\ gp.status # "pending" /\ as.status # "pending"
  /\ gpInfo.status # "pending" /\ asInfo.status # "pending" /\ asStats.status # "pending"
  /\ response' =
       IF endpoint = "reviews"
       THEN LET results == allSettled(gp, as, settled) IN
            ReviewsResponse(results[1], results[2])
       ELSE IF endpoint = "app-info"
       THEN LET results == allSettled(gpInfo, asInfo, settled) IN
            AppInfoResponse(results[1], results[2])
       ELSE IF endpoint = "stats"
       THEN LET results == allSettled(AndroidStatsCall(gp), asStats, settled) IN
            StatsResponse(results[1], results[2])
       ELSE IF endpoint = "android"
            THEN PlatformResponse(gp, "Google Play Store", "Failed to fetch Google Play reviews")
            ELSE PlatformResponse(as, "App Store", "Failed to fetch App Store reviews")
  /\ pc' = "responded"
  /\ UNCHANGED <<endpoint, query, limit, gp, as, settled, pageCall, feedCall, webCall, gpInfo, asInfo, asStats, statsCall, pair>>

\* The request is over; nothing of it is kept
Close ==
  /\ pc = "responded"
  /\ pc' = "idle"
  /\ endpoint' = "none"
  /\ query' = ""
  /\ limit' = 0
  /\ gp' = IdleGp
  /\ as' = IdleAs
  /\ response' = NoResponse
  /\ settled' = <<>>
  /\ gpInfo' = IdleGpInfo
  /\ asInfo' = IdleAsInfo
  /\ asStats' = IdleAsStats
  /\ UNCHANGED <<pageCall, feedCall, webCall, statsCall, pair>>

-----------------------------------------------------------------------------
(* Direct calls of AppStoreService.fetchReviews against a given feed *)

\* The pages a feed is given for: as many as the default limit asks for
FeedPages == maxPages(maxReviews)

\* A page of the feed: a failure, a page of PageSize reviews, or the app
\* information followed by up to MaxItems entries of any kind
FeedPageChoices(page) == FeedFailures \cup BulkPages(page) \cup SmallPages(page)

\* Later pages hold PageSize reviews, or reviews followed by an entry without
\* id, or fail
Feeds ==
  { [page \in 1..FeedPages |-> IF page = 1 THEN first ELSE rest[page]] :
      first \in FeedPageChoices(1),
      rest \in [2..FeedPages -> {"error", "nofeed", "reviews", "entries", "malformed"}] }

\* An entry with content and no id
EntryWithoutId == CHOOSE e \in EntryKinds : ~e.hasId

\* The response of page number page of a feed
FeedPage(feed, page) ==
  IF page = 1 THEN feed[1]
  ELSE IF feed[page] = "error" THEN [kind |-> "error", status |-> 0, entries |-> <<>>]
  ELSE IF feed[page] = "nofeed" THEN [kind |-> "nofeed", status |-> 200, entries |-> <<>>]
  ELSE IF feed[page] = "reviews"
  THEN [kind |-> "feed", status |-> 200,
        entries |-> FeedEntries(<<AppInfoEntry>> \o [i \in 1..PageSize |-> BulkEntry(i)], page)]
  ELSE IF feed[page] = "malformed"
  THEN [kind |-> "feed", status |-> 200,
        entries |-> FeedEntries(<<AppInfoEntry>> \o [i \in 1..(PageSize - 1) |-> BulkEntry(i)]
                                  \o <<EntryWithoutId>>, page)]
  ELSE [kind |-> "feed", status |-> 200,
        entries |-> FeedEntries([i \in 1..PageSize |-> BulkEntry(i)], page)]

\* The limits of the direct calls
FeedLimits == (-1..MaxSmallLimit) \cup {PageSize, PageSize + 1, maxReviews}

\* The call a, run to its end against the feed
RECURSIVE AsRun(_, _, _)
AsRun(a, feed, country) ==
  IF a.status # "pending" THEN a
  ELSE LET resp == FeedPage(feed, a.page)
       IN AsRun(AsAfterPage(a, fetchReviewsPage(resp, country, a.page), resp.kind = "error"),
                feed, country)

\* fetchReviews(appId, country, limit) against the feed
fetchReviews(feed, country, lim) == AsRun(AsStart(lim), feed, country)

NoFeedCall ==
  [called |-> FALSE, feed |-> <<>>, low |-> IdleAs, high |-> IdleAs]

\* fetchReviews is called with two limits against the same feed
FeedCall ==
  /\ pc = "idle"
  /\ ~pageCall.called /\ ~feedCall.called /\ ~webCall.called /\ ~statsCall.called
  /\ \E feed \in Feeds, lims \in FeedLimits \X FeedLimits :
       /\ lims[1] <= lims[2]
       /\ feedCall' = [called |-> TRUE, feed |-> feed,
                       low |-> fetchReviews(feed, ConfigCountry, lims[1]),
                       high |-> fetchReviews(feed, ConfigCountry, lims[2])]
  /\ UNCHANGED <<pc, endpoint, query, limit, gp, as, response, settled, gpInfo, asInfo, asStats,
                 pageCall, webCall, statsCall, pair>>

\* The caller drops the results
FeedForget ==
  /\ feedCall.called
  /\ feedCall' = NoFeedCall
  /\ UNCHANGED <<pc, endpoint, query, limit, gp, as, response, settled, gpInfo, asInfo, asStats,
                 pageCall, webCall, statsCall, pair>>

-----------------------------------------------------------------------------
(* Direct calls of GooglePlayService.scrapeReviewsFromWeb *)

NoWebCall ==
  [called |-> FALSE, limit |-> 0, resp |-> [kind |-> "error", js |-> <<>>, dom |-> NoDom],
   result |-> Return(<<>>)]

\* scrapeReviewsFromWeb is called with a limit, and the store page answers
WebCall ==
  /\ pc = "idle"
  /\ ~pageCall.called /\ ~feedCall.called /\ ~webCall.called /\ ~statsCall.called
  /\ \E lim \in 0..MaxSmallLimit :
       \E resp \in WebResponses(lim) :
         webCall' = [called |-> TRUE, limit |-> lim, resp |-> resp,
                     result |-> scrapeReviewsFromWeb(resp, ConfigLanguage, lim)]
  /\ UNCHANGED <<pc, endpoint, query, limit, gp, as, response, settled, gpInfo, asInfo, asStats,
                 pageCall, feedCall, statsCall, pair>>

\* The caller drops the result
WebForget ==
  /\ webCall.called
  /\ webCall' = NoWebCall
  /\ UNCHANGED <<pc, endpoint, query, limit, gp, as, response, settled, gpInfo, asInfo, asStats,
                 pageCall, feedCall, statsCall, pair>>

-----------------------------------------------------------------------------
(* Direct calls of AppStoreService.getReviewsStats *)

\* The entries of a sampled page: reviews the filter keeps, rated 5, 1, not
\* rated (rating 0) and rated 9
SampleKinds ==
  { e \in EntryKinds : e.hasId /\ e.author \in {"ayse", "mehmet"} } \cup
  { e \in EntryKinds : e.hasId /\ e.content = EnCapital } \cup
  { [hasId |-> TRUE, id |-> NoId, author |-> "veli", rating |-> "9", content |-> TrLong,
     updated |-> 1] }

\* The answers of the feed to the one page the sample asks for: a failure,
\* a page of PageSize reviews, or the app information followed by up to
\* MaxSample entries
SamplePages ==
  FeedFailures \cup BulkPages(1) \cup
  { [kind |-> "feed", status |-> 200, entries |-> FeedEntries(<<AppInfoEntry>> \o k, 1)] :
      k \in SeqsUpTo(SampleKinds, MaxSample) }

NoStatsCall ==
  [called |-> FALSE, appInfo |-> NullAsInfo, sample |-> IdleAs, result |-> NullStats]

\* getReviewsStats is called: the lookup answers, then the feed
StatsCall ==
  /\ pc = "idle"
  /\ ~pageCall.called /\ ~feedCall.called /\ ~webCall.called /\ ~statsCall.called
  /\ \E lookup \in LookupResponses, page \in SamplePages :
       LET appInfo == getAppInfo(lookup).value
           sample == fetchReviews(<<page>>, ConfigCountry, StatsSample)
       IN statsCall' = [called |-> TRUE, appInfo |-> appInfo, sample |-> sample,
                        result |-> getReviewsStats(appInfo, sample).value]
  /\ UNCHANGED <<pc, endpoint, query, limit, gp, as, response, settled, gpInfo, asInfo, asStats,
                 pageCall, feedCall, webCall, pair>>

\* The caller drops the result
StatsForget ==
  /\ statsCall.called
  /\ statsCall' = NoStatsCall
  /\ UNCHANGED <<pc, endpoint, query, limit, gp, as, response, settled, gpInfo, asInfo, asStats,
                 pageCall, feedCall, webCall, pair>>

-----------------------------------------------------------------------------
(* Two review requests served at once. Each invocation of a handler and of *)
(* the services' methods keeps its limit, its reviews, its page and its    *)
(* position in locals; the two service objects are shared and hold only    *)
(* baseUrl, which no method writes.                                        *)

PairIds == 1..2

\* (mutant: the locals are variables that every invocation shares)
FrameShared(r) == 1

\* The frame that holds the locals of the invocations of request r
Frame(r) == r

IdleFrame == [gp |-> IdleGp, as |-> IdleAs]
IdleReq == [pc |-> "idle", endpoint |-> "none", limit |-> 0, response |-> NoResponse]
NoFetches == [gp |-> <<>>, as |-> <<>>]

\* reqs: the requests; frames: the locals of their invocations; got: what
\* the storefronts answered to the fetches of each request, as the adapters'
\* tiers and pages returned it
NoPair ==
  [reqs |-> [r \in PairIds |-> IdleReq],
   frames |-> [r \in PairIds |-> IdleFrame],
   got |-> [r \in PairIds |-> NoFetches]]

PairQueries == {"1", "2"}

\* The storefronts' answers to the requests in flight: a failure or reviews
PairLibraryResponses ==
  { resp \in LibraryResponses(1) : resp.kind = "error" \/ Len(resp.items) = 1 }
PairApiResponses ==
  { resp \in ApiResponses(1) :
      \/ resp.kind = "error"
      \/ resp.kind = "html" /\ resp.html.elements \in { << e >> : e \in ApiElements } }
PairWebResponses ==
  { resp \in WebResponses(1) :
      resp.kind = "error" \/ resp.dom = [NoDom EXCEPT ![1] = << UsableElement >>] }
PairFeedResponses(page) ==
  { resp \in FeedResponses(1, page) :
      \/ resp.kind = "error" /\ resp.status = 0
      \/ resp.kind = "feed" /\ Len(resp.entries) = 2 /\ resp.entries[2].author \in {"ayse", "mehmet"} }

\* What the tier the call g waits for may return, with whether its
\* storefront request failed
TierOuts(g) ==
  IF g.tier = 1
  THEN { [r |-> getReviewsWithLibrary(resp, ConfigLanguage, g.limit),
          failed |-> resp.kind = "error"] : resp \in PairLibraryResponses }
  ELSE IF g.tier = 2
  THEN { [r |-> getReviewsFromPlayStore(resp, ConfigLanguage, g.limit),
          failed |-> resp.kind = "error"] : resp \in PairApiResponses }
  ELSE { [r |-> scrapeReviewsFromWeb(resp, ConfigLanguage, g.limit),
          failed |-> resp.kind = "error"] : resp \in PairWebResponses }

PageOuts(a) ==
  { [r |-> fetchReviewsPage(resp, ConfigCountry, a.page), failed |-> resp.kind = "error"] :
      resp \in PairFeedResponses(a.page) }

\* The calls a handler starts
StartFrame(e, lim) ==
  [gp |-> IF e = "reviews" THEN GpStart(limitPerPlatform(lim))
          ELSE IF e = "android" THEN GpStart(lim)
          ELSE IdleGp,
   as |-> IF e = "reviews" THEN AsStart(limitPerPlatform(lim))
          ELSE IF e = "ios" THEN AsStart(lim)
          ELSE IdleAs]

\* The response a handler builds from its settled calls
ResponseOf(e, frame) ==
  IF e = "reviews" THEN ReviewsResponse(frame.gp, frame.as)
  ELSE IF e = "android"
  THEN PlatformResponse(frame.gp, "Google Play Store", "Failed to fetch Google Play reviews")
  ELSE PlatformResponse(frame.as, "App Store", "Failed to fetch App Store reviews")

\* Request r arrives; its handler runs up to its first await
PairRequest(r, e, q) ==
  /\ pc = "idle"
  /\ ~pageCall.called /\ ~feedCall.called /\ ~webCall.called /\ ~statsCall.called
  /\ pair.reqs[r].pc = "idle"
  /\ pair' = [pair EXCEPT
                !.reqs[r] = [pc |-> "running", endpoint |-> e, limit |-> ParseLimit(q),
                             response |-> NoResponse],
                !.frames[Frame(r)] = StartFrame(e, ParseLimit(q)),
                !.got[r] = NoFetches]
  /\ UNCHANGED <<pc, endpoint, query, limit, gp, as, response, settled, gpInfo, asInfo, asStats,
                 pageCall, feedCall, webCall, statsCall>>

\* A tier of the Google Play fetch of request r settles
PairTierDone(r) ==
  /\ pair.reqs[r].pc = "running"
  /\ pair.frames[Frame(r)].gp.status = "pending"
  /\ \E out \in TierOuts(pair.frames[Frame(r)].gp) :
       pair' = [pair EXCEPT
                  !.frames[Frame(r)].gp = GpAfterTier(@, out.r, out.failed),
                  !.got[r].gp = Append(@, out)]
  /\ UNCHANGED <<pc, endpoint, query, limit, gp, as, response, settled, gpInfo, asInfo, asStats,
                 pageCall, feedCall, webCall, statsCall>>

\* A page of the App Store fetch of request r settles
PairPageDone(r) ==
  /\ pair.reqs[r].pc = "running"
  /\ pair.frames[Frame(r)].as.status = "pending"
  /\ \E out \in PageOuts(pair.frames[Frame(r)].as) :
       pair' = [pair EXCEPT
                  !.frames[Frame(r)].as = AsAfterPage(@, out.r, out.failed),
                  !.got[r].as = Append(@, out)]
  /\ UNCHANGED <<pc, endpoint, query, limit, gp, as, response, settled, gpInfo, asInfo, asStats,
                 pageCall, feedCall, webCall, statsCall>>

\* The fetches of request r have settled: its response is sent
PairRespond(r) ==
  /\ pair.reqs[r].pc = "running"
  /\ pair.frames[Frame(r)].gp.status # "pending"
  /\ pair.frames[Frame(r)].as.status # "pending"
  /\ pair' = [pair EXCEPT
                !.reqs[r].pc = "responded",
                !.reqs[r].response = ResponseOf(pair.reqs[r].endpoint, pair.frames[Frame(r)])]
  /\ UNCHANGED <<pc, endpoint, query, limit, gp, as, response, settled, gpInfo, asInfo, asStats,
                 pageCall, feedCall, webCall, statsCall>>

\* Request r is over: its locals are gone
PairClose(r) ==
  /\ pair.reqs[r].pc = "responded"
  /\ pair' = [pair EXCEPT !.reqs[r] = IdleReq, !.frames[Frame(r)] = IdleFrame,
                          !.got[r] = NoFetches]
  /\ UNCHANGED <<pc, endpoint, query, limit, gp, as, response, settled, gpInfo, asInfo, asStats,
                 pageCall, feedCall, webCall, statsCall>>

-----------------------------------------------------------------------------

Init ==
  /\ pc = "idle"
  /\ endpoint = "none"
  /\ query = ""
  /\ limit = 0
  /\ gp = IdleGp
  /\ as = IdleAs
  /\ response = NoResponse
  /\ settled = <<>>
  /\ gpInfo = IdleGpInfo
  /\ asInfo = IdleAsInfo
  /\ asStats = IdleAsStats
  /\ pageCall = NoPageCall
  /\ feedCall = NoFeedCall
  /\ webCall = NoWebCall
  /\ statsCall = NoStatsCall
  /\ pair = NoPair

Next ==
  \/ \E e \in Endpoints, q \in Queries : Request(e, q)
  \/ \E e \in InfoEndpoints : InfoRequest(e)
  \/ AppLibraryDone
  \/ AppPageDone
  \/ LookupDone
  \/ LibraryDone
  \/ ApiDone
  \/ WebDone
  \/ PageDone
  \/ Respond
  \/ Close

Spec == Init /\ [][Next]_vars

NextPage ==
  \/ PageCall
  \/ PageForget

SpecPage == Init /\ [][NextPage]_vars

NextFeed ==
  \/ FeedCall
  \/ FeedForget

SpecFeed == Init /\ [][NextFeed]_vars

NextWeb ==
  \/ WebCall
  \/ WebForget

SpecWeb == Init /\ [][NextWeb]_vars

NextStats ==
  \/ StatsCall
  \/ StatsForget

SpecStats == Init /\ [][NextStats]_vars

NextPair ==
  \E r \in PairIds :
    \/ \E e \in Endpoints, q \in PairQueries : PairRequest(r, e, q)
    \/ PairTierDone(r)
    \/ PairPageDone(r)
    \/ PairRespond(r)
    \/ PairClose(r)

SpecPair == Init /\ [][NextPair]_vars

-----------------------------------------------------------------------------
(* Claims about the adapters and the handlers, checked under Spec *)

\* Every storefront request of a call failed
AllFailed(log) == log # <<>> /\ \A i \in 1..Len(log) : log[i].failed

IsArray(v) == DOMAIN v = 1..Len(v)

\* C1: fetchReviews starts the tiers in the order library, internal
\* endpoint, web scrape, none twice; a tier is pending only after every
\* earlier tier completed with an empty list; and the value returned is the
\* list of the first tier that was not empty, or the web scrape's list.
C1_TiersInOrder ==
  gp.status # "idle" =>
    /\ Len(gp.log) <= Len(TierNames)
    /\ \A i \in 1..Len(gp.log) : gp.log[i].tier = TierNames[i]
    /\ gp.status = "pending" =>
         /\ gp.tier = Len(gp.log) + 1
         /\ \A i \in 1..Len(gp.log) : gp.log[i].out = <<>>
    /\ gp.status = "fulfilled" =>
         /\ Len(gp.log) >= 1
         /\ gp.value = gp.log[Len(gp.log)].out
         /\ \A i \in 1..(Len(gp.log) - 1) : gp.log[i].out = <<>>
         /\ gp.value # <<>> \/ Len(gp.log) = Len(TierNames)

\* C1 witness: the library and the endpoint returned nothing and the web
\* scrape's reviews are the value of the call.
C1_Witness ==
  /\ gp.status = "fulfilled"
  /\ Len(gp.log) = Len(TierNames)
  /\ gp.log[1].out = <<>> /\ gp.log[2].out = <<>>
  /\ gp.value # <<>>

\* C2: whatever fails in a tier or a page, both fetchReviews resolve with
\* an array; neither rejects.
C2_NeverRejects ==
  /\ gp.status # "rejected"
  /\ as.status # "rejected"
  /\ gp.status = "fulfilled" => IsArray(gp.value)
  /\ as.status = "fulfilled" => IsArray(as.value)
  /\ gp.status = "fulfilled" /\ AllFailed(gp.log) => gp.value = <<>>
  /\ as.status = "fulfilled" /\ AllFailed(as.log) => as.value = <<>>

\* C2 witness: every request of the three tiers and of the feed page failed
\* and both calls resolved with the empty array.
C2_Witness ==
  /\ gp.status = "fulfilled" /\ Len(gp.log) = Len(TierNames) /\ AllFailed(gp.log)
  /\ as.status = "fulfilled" /\ AllFailed(as.log)
  /\ gp.value = <<>> /\ as.value = <<>>

Body == response.body
ReviewsSent == response.sent /\ endpoint = "reviews"

\* Every element of list is an element of the other list
AllIn(list, other) ==
  \A i \in 1..Len(list) : \E j \in 1..Len(other) : other[j] = list[i]

\* C3: GET /reviews answers 200 with success=true whatever failed, and the
\* reviews either adapter returned are in its platforms entry and in
\* combined_reviews.
C3_PartialSuccess ==
  ReviewsSent =>
    /\ response.status = 200
    /\ Body.success
    /\ Body.platforms.android.reviews = gp.value
    /\ Body.platforms.ios.reviews = as.value
    /\ AllIn(gp.value, Body.combined_reviews)
    /\ AllIn(as.value, Body.combined_reviews)

\* C3 witness: every Google Play request failed, the App Store returned
\* reviews, and the response carries them.
C3_Witness ==
  /\ ReviewsSent
  /\ AllFailed(gp.log) /\ Len(gp.log) = Len(TierNames)
  /\ as.value # <<>>
  /\ Body.platforms.ios.reviews = as.value
  /\ Len(Body.combined_reviews) = Len(as.value)

\* C4 (as claimed): a platform whose storefront requests all failed is
\* reported with success=false and an error message.
C4_FailureReported ==
  ReviewsSent =>
    /\ AllFailed(gp.log) =>
         ~Body.platforms.android.success /\ Body.platforms.android.error # ""
    /\ AllFailed(as.log) =>
         ~Body.platforms.ios.success /\ Body.platforms.ios.error # ""

\* C5 (as claimed): fetchReviews stops only when it has limit reviews or a
\* page yielded none: when it returns fewer than limit reviews, the last
\* page it requested yielded none.
C5_StopsOnlyOnEmptyPage ==
  as.status = "fulfilled" /\ Len(as.value) < as.limit =>
    as.log # <<>> /\ as.log[Len(as.log)].yield = 0

\* The number of reviews in the response
ResponseCount ==
  IF endpoint = "reviews" THEN Body.total_reviews
  ELSE IF endpoint \in {"android", "ios"} THEN Body.count
  ELSE IF endpoint = "stats"
       THEN Len(Body.android.stats.recent_reviews) + Len(Body.ios.stats.recent_reviews)
       ELSE 0

\* C8 (as claimed): with a positive integer limit L in the query, the
\* response holds at most L reviews.
C8_AtMostLimit ==
  response.sent /\ ~parseInt(query).nan /\ parseInt(query).val > 0 =>
    ResponseCount <= parseInt(query).val

\* C9 (as claimed): no response holds more than 200 reviews.
C9_AtMostDocumentedMax ==
  response.sent => ResponseCount <= DocumentedMax

\* date a is older than date b (both parseable)
Older(a, b) == a # 0 /\ b # 0 /\ a < b

\* C10 (as claimed): combined_reviews is ordered newest first: no review
\* is older than a review after it.
C10_NewestFirst ==
  ReviewsSent =>
    \A i, j \in 1..Len(Body.combined_reviews) :
      i < j => ~Older(Body.combined_reviews[i].date, Body.combined_reviews[j].date)

-----------------------------------------------------------------------------
(* Claims about fetchReviewsPage, checked under SpecPage *)

PageEntries == pageCall.resp.entries
PageOut == pageCall.result.value

\* Entry i of the called page was returned as a review
Kept(i) == \E k \in 1..Len(PageOut) : PageOut[k].id = <<"as", pageCall.page, i>>

\* The position in the page of the entry review k was built from
PositionOf(k) == PageOut[k].id[3]

\* An entry whose review object cannot be built
Malformed(e) == e.content # "" /\ (e.id = NoId \/ e.author = "noname")
PageAborted == \E i \in FirstIndex..Len(PageEntries) : Malformed(PageEntries[i])

\* What the claim says the filter lets through
PassesFilter(e) == pageCall.country = "tr" \/ isTurkishContent(e.content)

\* C6: fetchReviewsPage never returns the first entry of a page, on any page
\* and whether or not that entry is a review; every review it returns was
\* built from a later entry, and the reviews are in feed order.
C6_FirstEntrySkipped ==
  pageCall.called =>
    /\ ~pageCall.result.threw
    /\ ~Kept(1)
    /\ \A k \in 1..Len(PageOut) :
         /\ PageOut[k].id[1] = "as"
         /\ PageOut[k].id[2] = pageCall.page
         /\ PositionOf(k) \in 2..Len(PageEntries)
         /\ PageOut[k].content = PageEntries[PositionOf(k)].content
    /\ \A k, l \in 1..Len(PageOut) : k < l => PositionOf(k) < PositionOf(l)

\* C6 witness: on a page after the first, the first entry is a well-formed
\* Turkish review, later entries are returned and the first one is not.
C6_Witness ==
  /\ pageCall.called
  /\ pageCall.page > 1
  /\ Len(PageEntries) >= 3
  /\ PageEntries[1].content = TrLong
  /\ ~Malformed(PageEntries[1])
  /\ Len(PageOut) = 2

\* C7 (as claimed): an entry with content is kept if and only if the country
\* is exactly 'tr' or its content passes isTurkishContent.
C7_KeptIffFilter ==
  pageCall.called =>
    \A i \in FirstIndex..Len(PageEntries) :
      PageEntries[i].content # "" => (Kept(i) <=> PassesFilter(PageEntries[i]))

\* C7 (amended): a page with a malformed entry after the first yields
\* nothing; on any other page an entry with content is kept if and only if
\* the country is exactly 'tr' or its content passes isTurkishContent; and
\* every review returned for another country passes isTurkishContent.
C7_KeptIffFilterUnlessAborted ==
  pageCall.called =>
    /\ PageAborted => PageOut = <<>>
    /\ ~PageAborted =>
         \A i \in FirstIndex..Len(PageEntries) :
           PageEntries[i].content # "" => (Kept(i) <=> PassesFilter(PageEntries[i]))
    /\ pageCall.country # "tr" =>
         \A k \in 1..Len(PageOut) : isTurkishContent(PageOut[k].content)

\* C7 witness: for the configured country 'TR' a page without malformed
\* entries has one entry kept and one entry with content dropped.
C7_Witness ==
  /\ pageCall.called
  /\ pageCall.country = ConfigCountry
  /\ ~PageAborted
  /\ Len(PageOut) = 1
  /\ \E i \in FirstIndex..Len(PageEntries) :
       PageEntries[i].content = EnLong /\ ~Kept(i)

-----------------------------------------------------------------------------
(* Further claims about GET /reviews, checked under Spec *)

\* The number of positions of list s that hold x
Occurrences(x, s) == Cardinality({ i \in 1..Len(s) : s[i] = x })

Range(s) == { s[i] : i \in 1..Len(s) }

\* s is a rearrangement of t
IsPermutation(s, t) ==
  /\ Len(s) = Len(t)
  /\ \A x \in Range(s) \cup Range(t) : Occurrences(x, s) = Occurrences(x, t)

\* C11: in the response of GET /reviews each platform's count is the length
\* of its reviews, total_reviews is the sum of the two counts, and
\* combined_reviews is a rearrangement of the android reviews followed by
\* the ios reviews.
C11_CountsAndPermutation ==
  ReviewsSent =>
    /\ Body.platforms.android.count = Len(Body.platforms.android.reviews)
    /\ Body.platforms.ios.count = Len(Body.platforms.ios.reviews)
    /\ Body.total_reviews = Body.platforms.android.count + Body.platforms.ios.count
    /\ Body.total_reviews = Len(Body.combined_reviews)
    /\ IsPermutation(Body.combined_reviews,
                     Body.platforms.android.reviews \o Body.platforms.ios.reviews)

\* C11 witness: both platforms returned reviews and the sort moved an App
\* Store review before a Google Play review.
C11_Witness ==
  /\ ReviewsSent
  /\ Body.platforms.android.count >= 1
  /\ Body.platforms.ios.count >= 2
  /\ Body.combined_reviews # Body.platforms.android.reviews \o Body.platforms.ios.reviews
  /\ Body.combined_reviews[1].platform = "App Store"

\* C12 (as claimed): every review either adapter returns, through any tier,
\* has an integer rating between 0 and 5.
C12_RatingInRange ==
  /\ gp.status = "fulfilled" => \A i \in 1..Len(gp.value) : gp.value[i].rating \in 0..5
  /\ as.status = "fulfilled" => \A i \in 1..Len(as.value) : as.value[i].rating \in 0..5

\* C13: the response of GET /reviews is sent only after both fetches have
\* settled, and it is the same whichever settled first: platforms.android
\* holds the Google Play adapter's list, platforms.ios the App Store
\* adapter's list, and combined_reviews is the sorted list of the Google
\* Play reviews followed by the App Store reviews.
C13_OrderIndependent ==
  ReviewsSent =>
    /\ Len(settled) = 2
    /\ gp.status # "pending" /\ as.status # "pending"
    /\ Body.platforms.android.reviews = gp.value
    /\ Body.platforms.ios.reviews = as.value
    /\ \A i \in 1..Len(Body.platforms.android.reviews) :
         Body.platforms.android.reviews[i].platform = "Google Play"
    /\ \A i \in 1..Len(Body.platforms.ios.reviews) :
         Body.platforms.ios.reviews[i].platform = "App Store"
    /\ Body.combined_reviews = SortByDate(gp.value \o as.value)

\* C13 witness: the App Store fetch settled first, the Google Play fetch
\* after it, both with reviews, and the response was sent.
C13_Witness ==
  /\ ReviewsSent
  /\ settled = <<"ios", "android">>
  /\ gp.value # <<>>
  /\ as.value # <<>>

\* C14: when the limit parameter is absent, not a number or 0, the handler
\* of each review endpoint uses the configured maxReviews; otherwise it uses
\* the integer parsed from the parameter; and /reviews/android and
\* /reviews/ios hand that limit to their adapter.
C14_DefaultLimit ==
  endpoint \in Endpoints =>
    /\ query \in {"", "abc", "0"} => limit = maxReviews
    /\ query \notin {"", "abc", "0"} =>
         ~parseInt(query).nan /\ limit = parseInt(query).val
    /\ \A n \in -1..BigLimit : n # 0 /\ query = ToString(n) => limit = n
    /\ endpoint = "android" => gp.limit = limit
    /\ endpoint = "ios" => as.limit = limit

\* C14 witness: /reviews/android was answered for limit=0 with the default
\* limit, which the adapter was called with.
C14_Witness ==
  /\ pc = "responded"
  /\ endpoint = "android"
  /\ query = "0"
  /\ limit = maxReviews
  /\ gp.limit = maxReviews

-----------------------------------------------------------------------------
(* Claims about the app information and the statistics, checked under Spec *)

\* C15: GooglePlayService.getAppInfo never rejects; it returns the library's
\* object when the library call succeeded, without requesting the store
\* page; otherwise it returns the object scraped from the store page; and it
\* returns null exactly when the library call and the page request both
\* failed.
C15_AppInfoFallback ==
  gpInfo.status # "idle" =>
    /\ gpInfo.status # "rejected"
    /\ Len(gpInfo.log) <= Len(InfoSteps)
    /\ \A i \in 1..Len(gpInfo.log) : gpInfo.log[i].step = InfoSteps[i]
    /\ gpInfo.status = "pending" =>
         /\ gpInfo.step = Len(gpInfo.log) + 1
         /\ \A i \in 1..Len(gpInfo.log) : gpInfo.log[i].failed
    /\ gpInfo.status = "fulfilled" =>
         /\ Len(gpInfo.log) >= 1
         /\ gpInfo.value = gpInfo.log[Len(gpInfo.log)].out
         /\ ~gpInfo.log[1].failed =>
              /\ Len(gpInfo.log) = 1
              /\ ~gpInfo.value.isNull
              /\ gpInfo.value.source = "library"
         /\ gpInfo.log[1].failed =>
              /\ Len(gpInfo.log) = 2
              /\ ~gpInfo.log[2].failed =>
                   ~gpInfo.value.isNull /\ gpInfo.value.source = "scrape"
         /\ gpInfo.value.isNull <=> \A i \in 1..Len(gpInfo.log) : gpInfo.log[i].failed

\* C15 witness: the library call failed and the call returned the object
\* scraped from the store page.
C15_Witness ==
  /\ gpInfo.status = "fulfilled"
  /\ Len(gpInfo.log) = 2
  /\ gpInfo.log[1].failed
  /\ gpInfo.value.source = "scrape"
  /\ gpInfo.value.name = "Koton"

InfoSent == response.sent /\ endpoint = "app-info"
StatsSent == response.sent /\ endpoint = "stats"

\* C16 (as claimed): in the responses of GET /app-info and GET /stats a
\* platform is reported with success=true only when its info (its stats) is
\* not null, and with success=false it carries an error.
C16_SuccessOnlyWithInfo ==
  /\ InfoSent =>
       /\ Body.android.success => ~Body.android.info.isNull
       /\ Body.ios.success => ~Body.ios.info.isNull
       /\ ~Body.android.success => Body.android.error # ""
       /\ ~Body.ios.success => Body.ios.error # ""
  /\ StatsSent =>
       /\ Body.android.success => ~Body.android.stats.isNull
       /\ Body.ios.success => ~Body.ios.stats.isNull
       /\ ~Body.android.success => Body.android.error # ""
       /\ ~Body.ios.success => Body.ios.error # ""

-----------------------------------------------------------------------------
(* Claims about the loop of AppStoreService.fetchReviews *)

\* What the loop of fetchReviews holds at every moment
AsLoopBounded ==
  as.status # "idle" =>
    /\ as.status # "rejected"
    /\ \A i \in 1..Len(as.log) : as.log[i].page = i
    /\ \A i \in 1..(Len(as.log) - 1) : ~as.log[i].failed /\ as.log[i].yield > 0
    /\ as.status = "pending" => as.page = Len(as.log) + 1 /\ ENABLED PageDone
    /\ as.limit > 0 => (Len(as.log) - 1) * PageSize < as.limit
    /\ as.limit <= 0 => as.log = <<>> /\ as.status = "fulfilled" /\ as.value = <<>>

\* A step of a pending call is the answer to one more page request, and
\* the call changes in no other way
AsLoopStep ==
  /\ as.status = "pending" /\ as' # as =>
       /\ Len(as'.log) = Len(as.log) + 1
       /\ as'.limit = as.limit
  /\ as.status = "fulfilled" /\ as' # as => as' = IdleAs

\* C17: fetchReviews terminates: a pending call waits for the answer of
\* exactly one page, every answer adds one request to a list that never
\* exceeds ceil(limit/50) requests, and a returned call requests nothing
\* more; it requests the pages 1, 2, 3, ... in order, none twice and none
\* after a failed or empty page; and for a limit of 0 or less it requests
\* none and returns the empty list.
C17_BoundedPages ==
  /\ []AsLoopBounded
  /\ [][AsLoopStep]_vars

\* C17 witness: for limit 100 the call requested pages 1 and 2 and returned
\* fewer than 100 reviews without requesting a third page.
C17_Witness ==
  /\ as.status = "fulfilled"
  /\ as.limit = maxReviews
  /\ Len(as.log) = 2
  /\ as.log[2].page = 2 /\ as.log[2].yield > 0
  /\ Len(as.value) < as.limit

-----------------------------------------------------------------------------
(* Claims about fetchReviews against a given feed, checked under SpecFeed *)

\* The reviews of the pages a call requested, in page order
RECURSIVE Requested(_, _)
Requested(run, upTo) ==
  IF upTo = 0 THEN <<>> ELSE Requested(run, upTo - 1) \o run.log[upTo].out

IsPrefix(s, t) == Len(s) <= Len(t) /\ \A i \in 1..Len(s) : s[i] = t[i]

\* The first n elements of s, none for n <= 0
FirstN(s, n) == [i \in 1..(IF n < Len(s) THEN n ELSE Len(s)) |-> s[i]]

\* A call returned the first min(limit, n) of the n filtered reviews of the
\* pages it requested
ReturnsRequestedPrefix(run) ==
  /\ run.status = "fulfilled"
  /\ \A i \in 1..Len(run.log) :
       /\ run.log[i].page = i
       /\ run.log[i].out = fetchReviewsPage(FeedPage(feedCall.feed, i), ConfigCountry, i).value
  /\ run.value = FirstN(Requested(run, Len(run.log)), run.limit)

\* C18: fetchReviews returns exactly the first min(limit, n) elements of
\* the concatenation, in page order, of the filtered reviews of the pages it
\* requested; and against the same feed the result for a limit is a prefix
\* of the result for any larger limit.
C18_PrefixOfPages ==
  feedCall.called =>
    /\ feedCall.low.limit <= feedCall.high.limit
    /\ ReturnsRequestedPrefix(feedCall.low)
    /\ ReturnsRequestedPrefix(feedCall.high)
    /\ IsPrefix(feedCall.low.value, feedCall.high.value)

\* C18 witness: against a feed of full pages, limit 50 took the 50 reviews
\* of page 1 and limit 51 took them and the first review of page 2.
C18_Witness ==
  /\ feedCall.called
  /\ feedCall.low.limit = PageSize
  /\ feedCall.high.limit = PageSize + 1
  /\ Len(feedCall.low.log) = 1
  /\ Len(feedCall.high.log) = 2
  /\ Len(feedCall.low.value) = PageSize
  /\ Len(feedCall.high.value) = PageSize + 1
  /\ feedCall.high.log[2].yield > 1

-----------------------------------------------------------------------------
(* Claims about scrapeReviewsFromWeb, checked under SpecWeb *)

WebOut == webCall.result.value
WebDom == webCall.resp.dom

\* The reviews the JavaScript data of the called page yields
WebJs == extractReviewsFromJavaScript(webCall.resp.js, webCall.limit)

\* Selector number k is the first that matches an element of the page
FirstToMatch(k) == WebDom[k] # <<>> /\ \A j \in 1..(k - 1) : WebDom[j] = <<>>

\* The element of selector k review number i was built from
ElementOf(k, i) == WebDom[k][WebOut[i].id[3] + 1]

\* The elements selector k matches that have a long enough content
UsableElements(k) ==
  { i \in 1..Len(WebDom[k]) : StrLen(WebDom[k][i].content) > MinContentLength }

\* C19: scrapeReviewsFromWeb returns the reviews of the JavaScript data when
\* there is at least one, whatever the selectors match; otherwise it builds
\* its reviews, in order, from the elements of the first of the selectors
\* [data-review-id], .RHo1pe, .review-item, .single-review that matches any
\* element, and from no other selector even when every element of that one
\* is discarded; and it returns at most limit reviews.
C19_JsThenFirstSelector ==
  webCall.called /\ webCall.resp.kind = "page" =>
    /\ ~webCall.result.threw
    /\ Len(WebOut) <= webCall.limit
    /\ WebJs # <<>> => WebOut = WebJs
    /\ WebJs = <<>> =>
         /\ (\A k \in 1..Len(reviewSelectors) : WebDom[k] = <<>>) => WebOut = <<>>
         /\ \A k \in 1..Len(reviewSelectors) :
              FirstToMatch(k) =>
                /\ Len(WebOut) =
                     (IF Cardinality(UsableElements(k)) < webCall.limit
                      THEN Cardinality(UsableElements(k)) ELSE webCall.limit)
                /\ \A i \in 1..Len(WebOut) :
                     /\ WebOut[i].id[1] = "gp_web"
                     /\ WebOut[i].id[3] + 1 \in UsableElements(k)
                     /\ WebOut[i].content = ElementOf(k, i).content
                     /\ ElementOf(k, i).author # "" => WebOut[i].author = ElementOf(k, i).author
                /\ \A i, j \in 1..Len(WebOut) : i < j => WebOut[i].id[3] < WebOut[j].id[3]

\* C19 witness: the page has no JavaScript data, every element of the first
\* matching selector is discarded, a later selector matches an element with
\* a long enough content, and nothing is returned.
C19_Witness ==
  /\ webCall.called
  /\ webCall.limit >= 1
  /\ webCall.resp.kind = "page"
  /\ webCall.resp.js = <<>>
  /\ FirstToMatch(1)
  /\ UsableElements(1) = {}
  /\ UsableElements(2) # {}
  /\ WebOut = <<>>

-----------------------------------------------------------------------------
(* Claims about the content of the Google Play reviews, checked under Spec *)

\* C20 (as claimed): every review GooglePlayService.fetchReviews returns,
\* whichever tier produced it, has a content longer than 10 characters.
C20_ContentLongEnough ==
  gp.status = "fulfilled" =>
    \A i \in 1..Len(gp.value) : StrLen(gp.value[i].content) > MinContentLength

-----------------------------------------------------------------------------
(* C21: the statistics of the App Store sample *)

StatsInfo == statsCall.appInfo
Sampled == statsCall.sample.value
StatsOut == statsCall.result

\* The sampled reviews that fall into one of the five buckets
InBucket == { i \in 1..Len(Sampled) : Sampled[i].rating >= 1 /\ Sampled[i].rating <= 5 }

BucketSum ==
  StatsOut.rating_distribution[1] + StatsOut.rating_distribution[2] +
  StatsOut.rating_distribution[3] + StatsOut.rating_distribution[4] +
  StatsOut.rating_distribution[5]

\* C21: getReviewsStats with app info returns as sample_size the number of
\* sampled reviews, at most 50; its five rating_distribution counters sum to
\* the number of sampled reviews rated 1..5, hence to at most sample_size;
\* recent_reviews is the first min(5, sample_size) sampled reviews in order.
\* Without app info it returns null, whatever was sampled.
C21_StatsOfSample ==
  statsCall.called =>
    IF StatsInfo.isNull
    THEN StatsOut.isNull
    ELSE /\ ~StatsOut.isNull
         /\ StatsOut.sample_size = Len(Sampled)
         /\ StatsOut.sample_size <= 50
         /\ BucketSum = Cardinality(InBucket)
         /\ BucketSum <= StatsOut.sample_size
         /\ StatsOut.recent_reviews = FirstN(Sampled, Min(5, StatsOut.sample_size))

\* Statistics over a sample of more than five reviews, some of them not
\* rated or rated out of range, some in a bucket
C21_Witness ==
  /\ statsCall.called
  /\ ~StatsInfo.isNull
  /\ Len(Sampled) > 5
  /\ Len(StatsOut.recent_reviews) = 5
  /\ \E i, j, k \in 1..Len(Sampled) :
       Sampled[i].rating = 0 /\ Sampled[j].rating > 5 /\ Sampled[k].rating \in 1..5
  /\ BucketSum < StatsOut.sample_size

-----------------------------------------------------------------------------
(* C22: requests are independent *)

\* The call g after the tiers whose results are fetches, in order
RECURSIVE GpReplay(_, _)
GpReplay(g, fetches) ==
  IF fetches = <<>> THEN g
  ELSE GpReplay(GpAfterTier(g, fetches[1].r, fetches[1].failed), Tail(fetches))

\* The call a after the pages whose results are fetches, in order
RECURSIVE AsReplay(_, _)
AsReplay(a, fetches) ==
  IF fetches = <<>> THEN a
  ELSE AsReplay(AsAfterPage(a, fetches[1].r, fetches[1].failed), Tail(fetches))

\* The calls of request r as its own fetches alone determine them
OwnFrame(r) ==
  LET start == StartFrame(pair.reqs[r].endpoint, pair.reqs[r].limit) IN
  [gp |-> GpReplay(start.gp, pair.got[r].gp),
   as |-> AsReplay(start.as, pair.got[r].as)]

\* C22: whether two review requests run one after the other or interleaved,
\* the calls of each hold, and its response is built from, only what the
\* storefronts answered to its own fetches; once a request is over nothing
\* of it is left.
C22_RequestsIndependent ==
  \A r \in PairIds :
    /\ pair.reqs[r].pc \in {"running", "responded"} => pair.frames[r] = OwnFrame(r)
    /\ pair.reqs[r].pc = "responded" =>
         pair.reqs[r].response = ResponseOf(pair.reqs[r].endpoint, OwnFrame(r))
    /\ pair.reqs[r].pc = "idle" =>
         /\ pair.reqs[r] = IdleReq
         /\ pair.frames[r] = IdleFrame
         /\ pair.got[r] = NoFetches

\* Request 1 has answered with reviews of both platforms while request 2,
\* which fetched other reviews in between, is still running
C22_Witness ==
  /\ pair.reqs[1].pc = "responded"
  /\ pair.reqs[1].endpoint = "reviews"
  /\ pair.reqs[1].response.body.platforms.android.count > 0
  /\ pair.reqs[1].response.body.platforms.ios.count > 0
  /\ pair.reqs[2].pc = "running"
  /\ pair.reqs[2].endpoint = "reviews"
  /\ pair.frames[2].gp.status = "pending"
  /\ pair.frames[2].as.status = "fulfilled"
  /\ pair.frames[2].as.value # <<>>
  /\ pair.frames[2].as.value # pair.frames[1].as.value

-----------------------------------------------------------------------------
(* C23: a malformed entry drops its page and ends the feed *)

\* Page p of the feed of the direct calls holds, after its first entry, an
\* entry whose review object cannot be built
HasMalformed(p) ==
  /\ FeedPage(feedCall.feed, p).kind = "feed"
  /\ \E i \in FirstIndex..Len(FeedPage(feedCall.feed, p).entries) :
       Malformed(FeedPage(feedCall.feed, p).entries[i])

\* The page with a malformed entry yielded nothing, was the last one the
\* call requested, and the call returned the reviews of the pages before it
EndsAtMalformed(run) ==
  \A k \in 1..Len(run.log) :
    HasMalformed(run.log[k].page) =>
      /\ run.log[k].out = <<>>
      /\ k = Len(run.log)
      /\ run.status = "fulfilled"
      /\ run.value = Requested(run, k - 1)

\* C23: a page with a malformed entry after its first (content but no id,
\* or an author without name) yields the empty list, valid reviews of that
\* page included, and fetchReviews requests no page after it.
C23_MalformedEndsFeed ==
  feedCall.called => EndsAtMalformed(feedCall.low) /\ EndsAtMalformed(feedCall.high)

\* Page 1 holds a Turkish review followed by a malformed entry and page 2 is
\* full of reviews: asked for the default limit, the call requested page 1
\* only and returned nothing
C23_Witness ==
  /\ feedCall.called
  /\ feedCall.high.limit = maxReviews
  /\ HasMalformed(1)
  /\ LET entries == FeedPage(feedCall.feed, 1).entries IN
     \E i, j \in FirstIndex..Len(entries) :
        /\ i < j
        /\ ~Malformed(entries[i]) /\ isTurkishContent(entries[i].content)
        /\ Malformed(entries[j])
  /\ feedCall.feed[2] = "reviews"
  /\ Len(feedCall.high.log) = 1
  /\ feedCall.high.value = <<>>

-----------------------------------------------------------------------------
(* C24: the share of a platform is fixed *)

\* Half of the limit of the request, rounded up
Share == (limit + 1) \div 2

\* C24: GET /reviews asks each platform for half of its limit rounded up,
\* and its response holds at most that many reviews of either platform,
\* whatever the other platform returned.
C24_FixedShare ==
  endpoint = "reviews" /\ pc # "idle" =>
    /\ gp.limit = Share
    /\ as.limit = Share
    /\ response.sent =>
         /\ Body.platforms.android.count <= Share
         /\ Body.platforms.ios.count <= Share
         /\ \A p \in {"android", "ios"} :
              Cardinality({ i \in 1..Len(Body.combined_reviews) :
                              Body.combined_reviews[i].platform =
                                (IF p = "android" THEN "Google Play" ELSE "App Store") }) <= Share

\* Google Play returned nothing and the feed page held more reviews than
\* the share of the App Store: the response holds the share only, fewer
\* reviews than the limit
C24_Witness ==
  /\ endpoint = "reviews"
  /\ response.sent
  /\ limit > 1
  /\ Body.platforms.android.count = 0
  /\ as.log # <<>>
  /\ as.log[1].yield > Share
  /\ Body.platforms.ios.count = Share
  /\ Body.total_reviews < limit

====
